---- MODULE Spec2Model ----
(***************************************************************************)
(* A model of dolphin-mcp: the MCP server pool, the tool-call router and   *)
(* the orchestration loop of src/src/dolphin_mcp/client.py.                *)
(*                                                                         *)
(* Names (server names, tool names, function names, parameter names) are   *)
(* sequences of one-character strings, so that the router's split of a     *)
(* function name is computed the way str.split("_", 1) computes it.        *)
(***************************************************************************)
EXTENDS Integers, Sequences, FiniteSets, TLC

(***************************************************************************)
(* Bounds of the model.                                                    *)
(***************************************************************************)
\* most tool calls the model emits during one interaction (all rounds together)
MaxToolCalls == 2
\* most tool calls the model emits during one interaction of the pool specification
PoolToolCalls == 1
\* most entries of mcpServers in the pool specification
MaxServers == 2
\* longest server name and longest tool name given to the split specification
MaxLen == 2
\* most records of provider_config["models"] given to the selection specification
MaxModels == 2
\* most entries of systemMessageFiles in the seeding specification
MaxFiles == 1
\* most content deltas of one provider stream in the chunk specification
MaxDeltas == 3
\* most items of a list of a tool result in the spill specification
MaxItems == 2
\* largest max_iterations of the reasoning specification
MaxIterations == 2
\* calls of execute_reasoning_loop on one reasoner in the reasoning specification
MaxSessions == 2
\* tasks that call stop() on one client in the client specification
MaxStoppers == 2
\* call_tool calls on one client in the client specification
MaxCalls == 2
\* tool_timeout of the client specification, in sleeps of the wait loop
ToolTimeout == 2
\* the timeout of list_tools in the client specification, in sleeps of its loop
ListTimeout == 1

(***************************************************************************)
(* Names.                                                                  *)
(***************************************************************************)
Underscore == "_"

\* the characters names are made of in the split specification
Alphabet == {"a", "b", Underscore}

\* all names over Alphabet of length 0..n
RECURSIVE NamesUpTo(_)
NamesUpTo(n) ==
    IF n = 0 THEN {<<>>}
    ELSE LET shorter == NamesUpTo(n - 1)
         IN  shorter \cup {Append(w, c) : w \in shorter, c \in Alphabet}

\* position of the first occurrence of character c in name s, 0 when there is none
IndexOfFirst(s, c) ==
    IF \E i \in 1..Len(s) : s[i] = c
    THEN CHOOSE i \in 1..Len(s) : s[i] = c /\ \A j \in 1..(i - 1) : s[j] # c
    ELSE 0

HasUnderscore(s) == IndexOfFirst(s, Underscore) # 0

\* a split that leaves the separator at the head of the second part
SplitKeepSeparator(func_name) ==
    LET i == IndexOfFirst(func_name, Underscore)
    IN  IF i = 0 THEN <<func_name>>
        ELSE <<SubSeq(func_name, 1, i - 1), SubSeq(func_name, i, Len(func_name))>>

\* a split at the last underscore, as func_name.rsplit("_", 1)
SplitLast(func_name) ==
    LET found == {i \in 1..Len(func_name) : func_name[i] = Underscore}
        i == IF found = {} THEN 0 ELSE CHOOSE k \in found : \A j \in found : j <= k
    IN  IF i = 0 THEN <<func_name>>
        ELSE <<SubSeq(func_name, 1, i - 1), SubSeq(func_name, i + 1, Len(func_name))>>

\* func_name.split("_", 1): one part when there is no underscore, otherwise the
\* text before the first underscore and the text after it
SplitFirst(func_name) ==
    LET i == IndexOfFirst(func_name, Underscore)
    IN  IF i = 0 THEN <<func_name>>
        ELSE <<SubSeq(func_name, 1, i - 1), SubSeq(func_name, i + 1, Len(func_name))>>

\* f"{server_name}_{t['name']}"
CatalogueName(server_name, tool_name) == server_name \o <<Underscore>> \o tool_name

(***************************************************************************)
(* JSON values, as far as the router looks at them: the type of the value  *)
(* and, for a container, what `p in value` finds in it (the keys of an     *)
(* object, the items of an array).                                         *)
(***************************************************************************)
ParamM == <<"m">>

JsonObject(keys) == [t |-> "object", keys |-> keys]
JsonArray(items) == [t |-> "array", keys |-> items]
JsonNull == [t |-> "null", keys |-> {}]
JsonFail == [t |-> "fail", keys |-> {}]

\* the arguments strings a model reply may carry
ArgsWithM == "{\"m\": 1}"
ArgsEmpty == "{}"
ArgsNull == "null"
ArgsList == "[\"m\"]"
ArgsBad == "{bad"

\* json.loads on the arguments strings above; JsonFail stands for a raised error
JsonLoads(s) ==
    CASE s = ArgsWithM -> JsonObject({ParamM})
      [] s = ArgsEmpty -> JsonObject({})
      [] s = ArgsNull  -> JsonNull
      [] s = ArgsList  -> JsonArray({ParamM})
      [] OTHER         -> JsonFail

\* try: func_args = json.loads(func_args_str)  except: func_args = {}
ParseArguments(func_args_str) ==
    LET v == JsonLoads(func_args_str)
    IN  IF v.t = "fail" THEN JsonObject({}) ELSE v

\* `param in func_args` is defined for containers only; on None, a number or a
\* boolean Python raises TypeError
SupportsIn(v) == v.t \in {"object", "array"}

(***************************************************************************)
(* Tools, as a server lists them.                                          *)
(***************************************************************************)
ToolEcho == [name |-> <<"e">>, has_schema |-> TRUE, required |-> <<ParamM>>]
ToolPing == [name |-> <<"p">>, has_schema |-> TRUE, required |-> <<>>]

\* the reply of every server to tools/list
ServerTools == <<ToolEcho, ToolPing>>

(***************************************************************************)
(* Server configuration: mcpServers, an ordered mapping name -> conf.      *)
(***************************************************************************)
ServerLetters == <<"s", "t", "u", "v">>

ServerNameAt(i) == <<ServerLetters[i]>>

ConfStdio    == [disabled |-> FALSE, transport |-> "stdio", url |-> FALSE]
ConfDisabled == [disabled |-> TRUE,  transport |-> "stdio", url |-> FALSE]
ConfSse      == [disabled |-> FALSE, transport |-> "sse",   url |-> TRUE]
ConfSseNoUrl == [disabled |-> FALSE, transport |-> "sse",   url |-> FALSE]

ConfKinds == {ConfStdio, ConfDisabled, ConfSse, ConfSseNoUrl}

\* every configuration of n servers
ConfigsOfLen(n) ==
    {[i \in 1..n |-> [name |-> ServerNameAt(i), conf |-> k[i]]] : k \in [1..n -> ConfKinds]}

AllConfigs == UNION {ConfigsOfLen(n) : n \in 0..MaxServers}

\* the configuration of the orchestration specification: one stdio server
\* and one disabled entry
ReferenceConfig ==
    <<[name |-> ServerNameAt(1), conf |-> ConfStdio],
      [name |-> ServerNameAt(2), conf |-> ConfDisabled]>>

ConfiguredNames(cfg) == {cfg[i].name : i \in 1..Len(cfg)}

\* transport == "sse" or ("url" in conf and transport != "stdio")
IsSse(conf) == conf.transport = "sse" \/ (conf.url /\ conf.transport # "stdio")

(***************************************************************************)
(* Server clients.                                                         *)
(***************************************************************************)
\* a client that was never constructed
NoClient ==
    [transport |-> "none", process |-> FALSE, session |-> FALSE, request_id |-> 0,
     stdin |-> <<>>, session_log |-> <<>>, tools |-> <<>>, shutdown |-> FALSE]

\* MCPClient.__init__
NewStdioClient == [NoClient EXCEPT !.transport = "stdio"]

\* SSEMCPClient.__init__
NewSseClient == [NoClient EXCEPT !.transport = "sse"]

\* a JSON-RPC request line written to the child's stdin
Request(id, method, tool, args) ==
    [id |-> id, method |-> method, tool |-> tool, args |-> args]

\* _send_message: nothing is written without a process or once shutting down
SendMessage(c, msg) ==
    IF ~c.process \/ c.shutdown THEN c
    ELSE [c EXCEPT !.stdin = Append(@, msg)]

StdioStartOutcomes == {"spawn_failed", "initialized", "init_error", "init_timeout"}
SseStartOutcomes == {"connected", "connect_failed", "initialize_failed"}

\* MCPClient.start with _perform_initialize, by the outcome of the spawn and of
\* the handshake
StdioStart(c, outcome) ==
    IF outcome = "spawn_failed" THEN c
    ELSE LET spawned == [c EXCEPT !.process = TRUE, !.request_id = @ + 1]
             asked == SendMessage(spawned, Request(spawned.request_id, "initialize", <<>>, JsonNull))
         IN  IF outcome = "initialized"
             THEN SendMessage(asked, Request(0, "notifications/initialized", <<>>, JsonNull))
             ELSE asked

\* SSEMCPClient.start: the session is kept when its initialize() fails
SseStart(c, outcome) ==
    IF outcome = "connect_failed" THEN c ELSE [c EXCEPT !.session = TRUE]

StartSucceeded(outcome) == outcome \in {"initialized", "connected"}

ListOutcomes == {"listed", "list_failed"}

\* MCPClient.list_tools: a tools/list request; the tools are cached only when
\* the reply carries them
StdioListTools(c, outcome) ==
    IF ~c.process THEN c
    ELSE LET numbered == [c EXCEPT !.request_id = @ + 1]
             asked == SendMessage(numbered, Request(numbered.request_id, "tools/list", <<>>, JsonNull))
         IN  IF outcome = "listed" THEN [asked EXCEPT !.tools = ServerTools] ELSE asked

\* SSEMCPClient.list_tools
SseListTools(c, outcome) ==
    IF ~c.session THEN c
    ELSE LET asked == [c EXCEPT !.session_log = Append(@, Request(0, "tools/list", <<>>, JsonNull))]
         IN  IF outcome = "listed" THEN [asked EXCEPT !.tools = ServerTools] ELSE asked

\* what list_tools returns to its caller
ListedTools(before, after, outcome) ==
    IF outcome = "listed" /\ (before.process \/ before.session) THEN after.tools ELSE <<>>

(***************************************************************************)
(* Conversation messages.                                                  *)
(***************************************************************************)
\* the content of a message: plain text, or the JSON a tool message carries
\* ({"error": text + arg} or the result of the named tool)
Content(kind, text, arg) == [kind |-> kind, text |-> text, arg |-> arg]

TextContent(text) == Content("text", text, <<>>)
ErrorContent(text, arg) == Content("error", text, arg)

Message(role, content, calls, id, name) ==
    [role |-> role, content |-> content, tool_calls |-> calls, tool_call_id |-> id,
     name |-> name]

SystemMessage == Message("system", TextContent("You are a helpful assistant."), <<>>, "", <<>>)
UserMessage == Message("user", TextContent("user_query"), <<>>, "", <<>>)

\* the system message made of the configured systemMessage
ConfiguredSystemMessage == Message("system", TextContent("systemMessage"), <<>>, "", <<>>)

\* the system message that would carry the contents of systemMessageFile
FileSystemMessage == Message("system", TextContent("contents of systemMessageFile"), <<>>, "", <<>>)

\* "File: " + file + "\n" + contents, for the i-th entry of systemMessageFiles
ListedFileMessage(i) == Message("system", Content("text", "File: ", i), <<>>, "", <<>>)

\* the keys of the chosen model that seed the conversation: systemMessageFile
\* ("absent", or the file is "readable" or "unreadable"), whether systemMessage
\* is given, and the files of systemMessageFiles
SystemConfigs ==
    [file : {"absent", "readable", "unreadable"},
     message : BOOLEAN,
     files : UNION {[1..n -> {"readable", "unreadable"}] : n \in 0..MaxFiles}]

\* a chosen model without any of these keys
NoSystemKeys == [file |-> "absent", message |-> FALSE, files |-> <<>>]

\* the messages of systemMessageFiles[from..]: one per file that can be read
RECURSIVE ListedFileMessages(_, _)
ListedFileMessages(files, from) ==
    IF from > Len(files) THEN <<>>
    ELSE (IF files[from] = "readable" THEN <<ListedFileMessage(from)>> ELSE <<>>)
             \o ListedFileMessages(files, from + 1)

\* step 4 of _initialize: a systemMessageFile that can be read is read into
\* system_msg and nothing is appended; otherwise systemMessage or the default
\* is appended; then the readable files of systemMessageFiles
SeedConversation(cfg) ==
    LET direct == IF cfg.message THEN ConfiguredSystemMessage ELSE SystemMessage
        first == IF cfg.file = "readable" THEN <<>> ELSE <<direct>>
    IN  first \o ListedFileMessages(cfg.files, 1)

\* {"role": "assistant", "content": assistant_text} plus "tool_calls" when given
AssistantMessage(text, calls) == Message("assistant", TextContent(text), calls, "", <<>>)

\* {"role": "tool", "tool_call_id": tc["id"], "name": func_name, "content": ...}
ToolMessage(tc, content) == Message("tool", content, <<>>, tc.id, tc.name)

\* the text of the n-th reply of the model during an interaction
ReplyTexts == <<"text1", "text2", "text3", "text4", "text5", "text6">>

NoServersError == "No MCP servers could be started."

(***************************************************************************)
(* Tool results, as process_long_fields sees them: JSON values.  A string  *)
(* is known by its length; a string the spill wrote is known by the string *)
(* it previews and the file it names; a string made by json.dumps is known *)
(* by the value it encodes, which is what json.loads gives back.           *)
(***************************************************************************)

\* max_length of process_long_fields when the caller gives none
DefaultMaxLength == 15000
\* the characters of an overlength string that its preview keeps
PreviewLength == 200
\* the characters of "..." after a cut preview
EllipsisLength == 3
\* the characters of "\n\n<content_written_to_file:" and ">" around the path
MarkerLength == 28
\* the characters of the path tempfile gives a file: /tmp/tmpXXXXXXXX.json
TempPathLength == 21

JsonString(n) == [t |-> "str", len |-> n]
JsonNumber == [t |-> "num"]
JsonList(items) == [t |-> "list", items |-> items]
JsonDict(fields) == [t |-> "dict", fields |-> fields]
\* f"{preview}\n\n<content_written_to_file:{temp_file_path}>" for the string s
Replacement(s, file) == [t |-> "ref", of |-> s, file |-> file]
\* json.dumps(value)
JsonDumps(value) == [t |-> "text", value |-> value]

\* isinstance(obj, str)
IsStr(obj) == obj.t \in {"str", "ref", "text"}
IsDict(obj) == obj.t = "dict"
IsList(obj) == obj.t = "list"

\* the preview has as many characters as the string, or 200 and "..."
PreviewLen(n) == IF n > PreviewLength THEN PreviewLength + EllipsisLength ELSE n

\* the keys of a dictionary, in one order
KeyOrder == <<"content", "isError", "type", "text", "f", "g">>
Values(fields) ==
    LET keys == SelectSeq(KeyOrder, LAMBDA k : k \in DOMAIN fields)
    IN  [i \in 1..Len(keys) |-> fields[keys[i]]]

RECURSIVE StrLen(_), JsonLen(_), SumJsonLen(_, _)
\* len(obj) of a string
StrLen(obj) ==
    CASE obj.t = "str"  -> obj.len
      [] obj.t = "ref"  -> PreviewLen(StrLen(obj.of)) + MarkerLength + TempPathLength
      [] obj.t = "text" -> JsonLen(obj.value)
\* the characters json.dumps writes for a value: quotes around a string, a
\* digit for a number, brackets and separators for a list or a dictionary
\* (a key and its separators count as four characters)
JsonLen(value) ==
    CASE IsStr(value)  -> StrLen(value) + 2
      [] IsList(value) -> 2 + SumJsonLen(value.items, 1)
      [] IsDict(value) -> 2 + SumJsonLen(Values(value.fields), 1)
                            + 4 * Len(Values(value.fields))
      [] OTHER         -> 1
SumJsonLen(items, i) ==
    IF i > Len(items) THEN 0 ELSE JsonLen(items[i]) + 1 + SumJsonLen(items, i + 1)

RECURSIVE check_for_long_fields(_, _)
\* check_for_long_fields of process_long_fields
check_for_long_fields(obj, threshold) ==
    IF IsStr(obj) THEN StrLen(obj) > threshold
    ELSE IF IsDict(obj)
         THEN \E k \in DOMAIN obj.fields : check_for_long_fields(obj.fields[k], threshold)
    ELSE IF IsList(obj)
         THEN \E i \in 1..Len(obj.items) : check_for_long_fields(obj.items[i], threshold)
    ELSE FALSE

RECURSIVE replace_long_fields(_, _, _)
\* replace_long_fields of process_long_fields
replace_long_fields(obj, threshold, file) ==
    IF IsStr(obj) /\ StrLen(obj) > threshold THEN Replacement(obj, file)
    ELSE IF IsDict(obj)
         THEN JsonDict([k \in DOMAIN obj.fields |->
                            replace_long_fields(obj.fields[k], threshold, file)])
    ELSE IF IsList(obj)
         THEN JsonList([i \in 1..Len(obj.items) |->
                            replace_long_fields(obj.items[i], threshold, file)])
    ELSE obj

\* the test for the MCP content format
IsEnvelope(obj) ==
    /\ IsDict(obj)
    /\ "content" \in DOMAIN obj.fields
    /\ IsList(obj.fields.content)
    /\ Len(obj.fields.content.items) > 0
    /\ IsDict(obj.fields.content.items[1])
    /\ "text" \in DOMAIN obj.fields.content.items[1].fields

\* tool_result["content"][0]["text"]
EnvelopeText(obj) == obj.fields.content.items[1].fields.text

\* json.loads of the envelope's text: the value a json.dumps string encodes,
\* JSONDecodeError for another string, TypeError for what is not a string
LoadsText(text) ==
    IF text.t = "text" THEN [outcome |-> "value", value |-> text.value]
    ELSE IF IsStr(text) THEN [outcome |-> "JSONDecodeError", value |-> text]
    ELSE [outcome |-> "TypeError", value |-> text]

\* is_content_text: the envelope's text was parsed
IsContentText(obj) == IsEnvelope(obj) /\ LoadsText(EnvelopeText(obj)).outcome = "value"

\* the mutated extraction: the text of an envelope is not parsed
WholeResult(obj) == obj
\* `result` after the extraction: the value that is examined, replaced and written
ExaminedResult(obj) ==
    IF IsContentText(obj) THEN LoadsText(EnvelopeText(obj)).value ELSE obj

\* the mutated return: the replaced value without its envelope
Unwrapped(obj, result) == result
\* tool_result["content"][0]["text"] = json.dumps(result, ...); return tool_result
Rewrapped(obj, result) ==
    [obj EXCEPT !.fields.content.items[1].fields.text = JsonDumps(result)]

\* how a call ended: it returned a value or raised; whether a temp file was
\* needed ("none" if not), written or could not be written; the contents of
\* the files it created
Outcome(status, value, io, written) ==
    [status |-> status, value |-> value, io |-> io, written |-> written]
NoOutcome == Outcome("none", JsonNumber, "none", <<>>)

\* process_long_fields(tool_result, max_length), whose temp file would be
\* this one, with this outcome of creating and writing it
process_long_fields(obj, threshold, file, io) ==
    IF ~(IsDict(obj) \/ IsList(obj)) THEN Outcome("returned", obj, "none", <<>>)
    ELSE IF IsEnvelope(obj) /\ LoadsText(EnvelopeText(obj)).outcome = "TypeError"
         THEN Outcome("raised", obj, "none", <<>>)
    ELSE LET result == ExaminedResult(obj)
         IN  IF ~check_for_long_fields(result, threshold)
             THEN Outcome("returned", obj, "none", <<>>)
             ELSE IF io = "failed"
                  THEN Outcome("returned", obj, "failed", <<>>)
                  ELSE LET modified == replace_long_fields(result, threshold, file)
                       IN  Outcome("returned",
                                   IF IsContentText(obj) THEN Rewrapped(obj, modified)
                                                         ELSE modified,
                                   "written", <<result>>)

\* the tool results of the spill specification
StringLengths == {50, 150, 20000}
MaxLengths == {100, DefaultMaxLength}
Leaves == {JsonString(n) : n \in StringLengths} \cup {JsonNumber}
Lists == {JsonList(items) : items \in UNION {[1..n -> Leaves] : n \in 0..MaxItems}}
Dicts == {JsonDict([f |-> a]) : a \in Leaves}
             \cup {JsonDict([f |-> a, g |-> b]) : a \in Leaves, b \in Leaves}
Flat == Lists \cup Dicts
Nested == {JsonDict([f |-> x, g |-> a]) : x \in Flat, a \in Leaves}
              \cup {JsonList(<<a, x>>) : x \in Flat, a \in Leaves}
\* the MCP content format: a text item first, other items after it
Envelope(text, others) ==
    JsonDict([content |-> JsonList(<<JsonDict([type |-> JsonString(4), text |-> text])>>
                                       \o others),
              isError |-> JsonNumber])
EnvelopeTexts == {JsonDumps(value) : value \in Flat \cup Leaves} \cup Leaves
OtherItems == {<<>>} \cup
    {<<JsonDict([type |-> JsonString(4), text |-> JsonString(n)])>> : n \in StringLengths}
Envelopes == {Envelope(text, others) : text \in EnvelopeTexts, others \in OtherItems}
ToolResults == Leaves \cup Flat \cup Nested \cup Envelopes

(***************************************************************************)
(* The reasoning engine: ReasoningConfig, the model results of a session,  *)
(* the code interpreter and one iteration of execute_reasoning_loop.       *)
(***************************************************************************)

\* ReasoningConfig: reasoning_trace is a callable or None
ReasoningConfigs ==
    [reasoning_trace : {"callable", "None"},
     enable_code_execution : BOOLEAN,
     max_iterations : 0..MaxIterations]

\* ReasoningConfig() but for max_iterations
DefaultReasoningConfig ==
    [reasoning_trace |-> "None", enable_code_execution |-> TRUE, max_iterations |-> 0]

\* the code of a <python> block: `x = 1`, `print(x)`, `1 / 0`, `sys.exit()`
CodeKinds == {"bind", "use", "error", "exit"}
\* extract_code_blocks of an assistant text
CodeBlocks ==
    {<<>>} \cup {<<a>> : a \in CodeKinds} \cup {<<a, b>> : a \in CodeKinds, b \in CodeKinds}

\* the <tool_code> block of an assistant text: none, a name that is not in
\* the catalogue, a known tool for which the model gives no valid arguments,
\* a known tool that is dispatched and answers, or whose dispatch raises
ToolKinds == {"none", "unknown", "bad_args", "dispatch", "dispatch_raises"}

\* a model result: whether generate_func raised, whether the assistant text
\* holds a final-answer block, its tool block, its code blocks, and its
\* "reasoning" field (absent, empty or a text)
ModelResult(raises, final, tool, code, reasoning) ==
    [raises |-> raises, final |-> final, tool |-> tool, code |-> code,
     reasoning |-> reasoning]

NoReply == ModelResult(FALSE, FALSE, "none", <<>>, "None")
\* the model results of the reasoning specification: every combination of
\* final answer, tool block and code blocks without a reasoning field, every
\* reasoning field for the results without code blocks, and a raised error
ModelResults ==
    {ModelResult(FALSE, final, tool, code, "None") :
         final \in BOOLEAN, tool \in ToolKinds, code \in CodeBlocks}
        \cup {ModelResult(FALSE, final, tool, <<>>, reasoning) :
                  final \in BOOLEAN, tool \in ToolKinds, reasoning \in {"", "thinking"}}
        \cup {ModelResult(TRUE, FALSE, "none", <<>>, "None")}

\* the names a code block binds
Binds(code) == IF code = "bind" THEN {"x"} ELSE {}

\* python_interpreter(code, context) when sys.stdout is `stdout`: the output
\* it returns, the context after it, what sys.stdout is after it, and whether
\* an exception left it (SystemExit is no Exception)
python_interpreter(code, context, stdout) ==
    CASE code = "bind"  -> [output |-> "", context |-> context \cup Binds(code),
                            stdout |-> stdout, escaped |-> FALSE]
      [] code = "use"   -> [output |-> IF "x" \in context THEN "1" ELSE "Traceback: NameError",
                            context |-> context, stdout |-> stdout, escaped |-> FALSE]
      [] code = "error" -> [output |-> "Traceback: ZeroDivisionError", context |-> context,
                            stdout |-> stdout, escaped |-> FALSE]
      [] code = "exit"  -> [output |-> "", context |-> context, stdout |-> "buffer",
                            escaped |-> TRUE]

\* what the code blocks of one message did so far
CodeRun(outputs, context, stdout, escaped, bound) ==
    [outputs |-> outputs, context |-> context, stdout |-> stdout, escaped |-> escaped,
     bound |-> bound]

RECURSIVE RunCodeBlocks(_, _, _)
\* `for code in code_blocks: output = python_interpreter(code, self.python_context)`
\* from the k-th block on; an exception that leaves the interpreter ends it
RunCodeBlocks(blocks, k, run) ==
    IF k > Len(blocks) \/ run.escaped THEN run
    ELSE LET r == python_interpreter(blocks[k], run.context, run.stdout)
         IN  RunCodeBlocks(blocks, k + 1,
                 CodeRun(IF r.escaped THEN run.outputs ELSE Append(run.outputs, r.output),
                         r.context, r.stdout, r.escaped,
                         run.bound \cup (IF r.escaped THEN {} ELSE Binds(blocks[k]))))

\* what one iteration did: its trace calls, the outputs of the code blocks it
\* ran, the tools it dispatched, the messages it appended after the
\* assistant message, its calls of generate_func, and how it ended
Observation(trace, ran, dispatched, appended, calls, ending) ==
    [trace |-> trace, ran |-> ran, dispatched |-> dispatched, appended |-> appended,
     calls |-> calls, ending |-> ending]
NoObservation == Observation(<<>>, <<>>, <<>>, <<>>, 0, "none")

\* how execute_reasoning_loop ended: (success, text) returned, or an exception
ReasonResult(kind, success, text) == [kind |-> kind, success |-> success, text |-> text]
NoReasonResult == ReasonResult("none", FALSE, "")

\* the tool block of an iteration: its trace calls, the tool dispatched, the
\* message appended, the generate_func call for the arguments, and whether
\* process_tool_call_func raised
ToolPart(tool) ==
    CASE tool = "unknown" ->
             [trace |-> <<"Processing tool call", "Error calling tool">>, dispatched |-> <<>>,
              appended |-> <<"tool_output: Tool not found">>, calls |-> 0, raised |-> FALSE]
      [] tool = "bad_args" ->
             [trace |-> <<"Processing tool call", "Asking LLM", "LLM generated arguments",
                          "Failed to parse arguments", "Error calling tool">>,
              dispatched |-> <<>>, appended |-> <<"tool_output: no valid arguments">>,
              calls |-> 1, raised |-> FALSE]
      [] tool = "dispatch" ->
             [trace |-> <<"Processing tool call", "Asking LLM", "LLM generated arguments",
                          "Tool call output">>,
              dispatched |-> <<"tool">>, appended |-> <<"tool_output">>, calls |-> 1,
              raised |-> FALSE]
      [] tool = "dispatch_raises" ->
             [trace |-> <<"Processing tool call", "Asking LLM", "LLM generated arguments",
                          "Error in reasoning iteration">>,
              dispatched |-> <<"tool">>, appended |-> <<>>, calls |-> 1, raised |-> TRUE]

\* the trace calls around the code blocks that ran
CodeTrace(n) == [i \in 1..(2 * n) |-> IF i % 2 = 1 THEN "Executing code" ELSE "Code Output"]

\* the body of `for i in range(self.config.max_iterations)` for one model
\* result: tool blocks first (then `continue`), then code blocks (then
\* `continue`), then the notice and the re-prompt, and the final answer last
Iteration(reply, config, context, stdout) ==
    LET none == CodeRun(<<>>, context, stdout, FALSE, {})
        step == <<"Step">>
    IN  IF reply.raises
        THEN [obs |-> Observation(step \o <<"Error in reasoning iteration">>, <<>>, <<>>,
                                  <<>>, 1, "error"), run |-> none]
        ELSE IF reply.tool # "none"
        THEN LET part == ToolPart(reply.tool)
             IN  [obs |-> Observation(step \o <<"[ASSISTANT]">> \o part.trace, <<>>,
                                      part.dispatched, part.appended, 1 + part.calls,
                                      IF part.raised THEN "error" ELSE "continue"),
                  run |-> none]
        ELSE LET run == IF config.enable_code_execution
                        THEN RunCodeBlocks(reply.code, 1, none) ELSE none
                 traced == step \o <<"[ASSISTANT]">> \o
                           (IF run.escaped
                            THEN Append(CodeTrace(Len(run.outputs)), "Executing code")
                            ELSE CodeTrace(Len(run.outputs)))
             IN  IF run.escaped
                 THEN [obs |-> Observation(traced, run.outputs, <<>>, <<>>, 1, "escaped"),
                       run |-> run]
                 ELSE IF run.outputs # <<>>
                 THEN [obs |-> Observation(traced, run.outputs, <<>>, <<"code_output">>, 1,
                                           "continue"),
                       run |-> run]
                 ELSE LET notice == reply.code = <<>>
                      IN  [obs |-> Observation(
                                       traced
                                         \o (IF notice THEN <<"No code execution or tool calls detected">>
                                             ELSE <<>>)
                                         \o (IF reply.final THEN <<"Final answer detected">>
                                             ELSE <<>>),
                                       <<>>, <<>>,
                                       (IF notice THEN <<"no_code_output">> ELSE <<>>)
                                         \o <<"next step or final answer">>,
                                       1,
                                       IF reply.final THEN "final" ELSE "continue"),
                           run |-> run]

VARIABLES
    entry,            \* "run_interaction" or "agent" (MCPAgent used as a library)
    stream,           \* the stream flag of the interaction
    use_reasoning,    \* should_use_reasoning of MCPAgent.prompt
    servers_cfg,      \* mcpServers
    system_cfg,       \* the system message keys of the chosen model
    budget,           \* tool calls the model may still emit (bounds the model)
    pc,               \* position of the interaction
    cfg_i,            \* index into servers_cfg of the entry _initialize handles next
    clients,          \* name -> state of the client constructed for that entry
    ok,               \* name -> what start() of its client returned ("unset" before)
    servers,          \* self.servers: the names in the pool, in insertion order
    all_functions,    \* self.all_functions: the catalogue names
    init_ret,         \* what _initialize returned
    has_conversation, \* whether self.conversation exists
    conversation,     \* self.conversation
    model_calls,      \* number of replies generate_text has returned
    tool_calls,       \* the tool calls of the reply being processed
    tc_i,             \* index of the tool call the for loop is at
    inflight,         \* indices of the tool calls whose call_tool is awaited
    final_text,       \* final_text of the non-streaming loop
    yielded,          \* texts the streaming generator has yielded
    prompt_ret,       \* what MCPAgent.prompt handed back
    result,           \* what the caller of the interaction got
    stream_end,       \* how the streaming generator ended: "open", "exhausted", "raised"
    cleaned,          \* cleanup() has completed
    stop_i,           \* index into servers of the client cleanup() stops next
    route_out,        \* split specification: what the router does with the catalogue name
    split_in,         \* split specification: the (server, tool) given
    split_out,        \* split specification: the parts the router split the name into
    model_name,       \* selection specification: the requested model name ("" for none)
    models_cfg,       \* selection specification: provider_config["models"]
    chosen_model,     \* selection specification: index of self.chosen_model, 0 for None
    deltas,           \* chunk specification: the content deltas the provider will still send
    current_content,  \* chunk specification: current_content of the streaming adapter
    token_text,       \* chunk specification: the token chunks the adapter yielded, concatenated
    final_chunk,      \* chunk specification: the final chunk the adapter yielded, if any
    accumulated_text, \* chunk specification: accumulated_text of the streaming loop
    received_text,    \* chunk specification: what the streaming loop yielded, concatenated
    tool_result,      \* spill specification: the value given to process_long_fields
    max_length,       \* spill specification: the threshold given to it
    temp_files,       \* spill specification: the contents of the temp files, by creation
    spill_out,        \* spill specification: how the call on tool_result ended
    respill_out,      \* spill specification: how the call on the returned value ended
    r_cfg,            \* reasoning specification: the ReasoningConfig of the reasoner
    r_session,        \* reasoning specification: the number of this execute_reasoning_loop call
    r_i,              \* reasoning specification: iterations of the loop that have run
    python_context,   \* reasoning specification: self.python_context, the names it binds
    sys_stdout,       \* reasoning specification: what sys.stdout is
    r_reply,          \* reasoning specification: the model result of the last iteration
    r_obs,            \* reasoning specification: what the last iteration did
    r_result,         \* reasoning specification: how the call ended
    r_model_calls,    \* reasoning specification: calls of generate_func in this call
    session_bound,    \* reasoning specification: names bound by code blocks of this call
    ever_bound,       \* reasoning specification: names bound by code blocks of any call
    w_client,         \* client specification: the started client
    responses,        \* client specification: self.responses, the replies stored by id
    replied,          \* client specification: the request ids the server has answered
    child,            \* client specification: the child process
    stop_log,         \* client specification: what stop() did to the child or the session
    cleanup_lock,     \* client specification: the task holding self._cleanup_lock, or 0
    stop_pc,          \* client specification: task -> position of its stop() call
    receive_task,     \* client specification: whether the receive loop runs
    call,             \* client specification: the call_tool call under way or ended last
    calls_made,       \* client specification: call_tool calls begun
    stdout_pipe,      \* client specification: lines the child wrote that nobody read yet
    listing,          \* client specification: the list_tools call under way or ended
    model_cfg,        \* adapter specification: the model configuration given to the adapter
    create_kwargs,    \* adapter specification: the arguments of chat.completions.create
    fragments,        \* adapter specification: the tool call fragments received so far
    current_tool_calls, \* adapter specification: current_tool_calls of the streaming adapter
    gen_result,       \* adapter specification: what the adapter handed to the loop
    loop_out,         \* adapter specification: what the loop did with gen_result
    provider_outcome  \* adapter specification: how the provider call went

vars == <<entry, stream, use_reasoning, servers_cfg, system_cfg, budget, pc, cfg_i, clients, ok, servers,
          all_functions, init_ret, has_conversation, conversation, model_calls,
          tool_calls, tc_i, inflight, final_text, yielded, prompt_ret, result,
          stream_end, cleaned, stop_i, split_in, split_out, route_out, model_name,
          models_cfg,
          chosen_model, deltas, current_content, token_text, final_chunk,
          accumulated_text, received_text, tool_result, max_length, temp_files,
          spill_out, respill_out, r_cfg, r_session, r_i, python_context, sys_stdout,
          r_reply, r_obs, r_result, r_model_calls, session_bound, ever_bound,
          w_client, responses, replied, child, stop_log, cleanup_lock, stop_pc,
          receive_task, call, calls_made, stdout_pipe, listing, model_cfg,
          create_kwargs, fragments, current_tool_calls, gen_result, loop_out,
          provider_outcome>>

env_vars == <<entry, stream, use_reasoning, servers_cfg, system_cfg>>
pool_vars == <<cfg_i, clients, ok, servers, all_functions, init_ret>>
loop_vars == <<model_calls, tool_calls, tc_i, inflight, final_text, yielded, budget>>
split_vars == <<split_in, split_out, route_out>>
select_vars == <<model_name, models_cfg, chosen_model>>

chunk_vars == <<deltas, current_content, token_text, final_chunk, accumulated_text,
                received_text>>

spill_vars == <<tool_result, max_length, temp_files, spill_out, respill_out>>

\* the variables of the reasoning engine's specification
reason_vars == <<r_cfg, r_session, r_i, python_context, sys_stdout, r_reply, r_obs,
                 r_result, r_model_calls, session_bound, ever_bound>>
\* the variables of the client specification
wire_vars == <<w_client, responses, replied, child, stop_log, cleanup_lock, stop_pc,
               receive_task, call, calls_made, stdout_pipe, listing>>
\* the variables of the adapter specification
adapter_vars == <<model_cfg, create_kwargs, fragments, current_tool_calls, gen_result,
                  loop_out, provider_outcome>>
side_vars == <<reason_vars, wire_vars, adapter_vars>>
pure_vars == <<split_vars, select_vars, chunk_vars, spill_vars, side_vars>>

\* no split is under way
\* process_tool_call has not run
NoRoute ==
    [act |-> "none", content |-> TextContent(""), server |-> <<>>, tool |-> <<>>,
     args |-> JsonNull]

SplitIdle == split_in = <<>> /\ split_out = <<>> /\ route_out = NoRoute

\* no model selection is under way
SelectIdle == model_name = "" /\ models_cfg = <<>> /\ chosen_model = 0

NoChunk == [sent |-> FALSE, text |-> <<>>]

\* a streamed generation that has not begun, for the given stream of deltas
ChunksBegin(stream_of_deltas) ==
    /\ deltas = stream_of_deltas
    /\ current_content = <<>>
    /\ token_text = <<>>
    /\ final_chunk = NoChunk
    /\ accumulated_text = <<>>
    /\ received_text = <<>>

\* no streamed generation is under way
ChunkIdle == ChunksBegin(<<>>)

\* process_long_fields called on this value with this threshold, not yet run
SpillBegin(value, threshold) ==
    /\ tool_result = value
    /\ max_length = threshold
    /\ temp_files = <<>>
    /\ spill_out = NoOutcome
    /\ respill_out = NoOutcome

\* no call of process_long_fields is under way
SpillIdle == SpillBegin(JsonNumber, DefaultMaxLength)

\* a reasoner with this configuration, before any execute_reasoning_loop call
ReasonerBegin(config) ==
    /\ r_cfg = config
    /\ r_session = 1
    /\ r_i = 0
    /\ python_context = {}
    /\ sys_stdout = "original"
    /\ r_reply = NoReply
    /\ r_obs = NoObservation
    /\ r_result = NoReasonResult
    /\ r_model_calls = 0
    /\ session_bound = {}
    /\ ever_bound = {}

\* no reasoning session is under way
ReasonIdle == ReasonerBegin(DefaultReasoningConfig)

Stoppers == 1..MaxStoppers

ChildKinds == {"cooperative", "ignores_terminate"}

\* no call_tool call was made
NoCall == [state |-> "none", rid |-> 0, elapsed |-> 0, outcome |-> [kind |-> "none", id |-> 0]]

\* this client with this child, before any call_tool or stop() call
WireBegin(c, kind) ==
    /\ w_client = c
    /\ responses = {}
    /\ replied = {}
    /\ child = [kind |-> kind, exited |-> FALSE, spawn |-> 1]
    /\ stop_log = <<>>
    /\ cleanup_lock = 0
    /\ stop_pc = [t \in Stoppers |-> "idle"]
    /\ receive_task = c.process
    /\ call = NoCall
    /\ calls_made = 0
    /\ stdout_pipe = <<>>
    /\ listing = NoCall

\* no client is under the client specification
WireIdle == WireBegin(NoClient, "cooperative")

\* ---- providers/openai.py: the OpenAI adapter, before a generation ----

\* a key of model_cfg that is not configured, or configured as None
None == "None"

\* model_cfg as generate_with_openai reads it
ModelConfig(model, is_reasoning, max_tokens, temperature, top_p, reasoning_effort) ==
    [model |-> model, is_reasoning |-> is_reasoning, max_tokens |-> max_tokens,
     temperature |-> temperature, top_p |-> top_p, reasoning_effort |-> reasoning_effort]

\* the configurations of test_reasoning_model.py, and a reasoning model with no
\* reasoning_effort and no sampling parameters but max_tokens
ModelConfigs ==
    {ModelConfig("o4-mini", FALSE, None, "0.7", "0.9", "medium"),
     ModelConfig("gpt-4o", FALSE, "1000", "0.7", "0.9", None),
     ModelConfig("gpt-4o", TRUE, None, "0.7", "0.9", "medium"),
     ModelConfig("o3-mini", TRUE, "1000", None, None, None)}

\* no request has been made
NoKwargs == [key \in {} |-> None]

\* the adapter has handed nothing to the loop
NoGen == [kind |-> "none", assistant_text |-> <<>>, tool_calls |-> <<>>]

\* the loop has not seen a reply
NoLoopOut == [seen |-> FALSE, final_text |-> <<>>, dispatched |-> 0, ended |-> FALSE]

\* generate_with_openai is about to be called with this configuration
AdapterBegin(cfg) ==
    /\ model_cfg = cfg
    /\ create_kwargs = NoKwargs
    /\ fragments = <<>>
    /\ current_tool_calls = <<>>
    /\ gen_result = NoGen
    /\ loop_out = NoLoopOut
    /\ provider_outcome = "none"

\* no generation is under way
AdapterIdle == AdapterBegin(ModelConfig("", FALSE, None, None, None, None))

SideIdle == ReasonIdle /\ WireIdle /\ AdapterIdle

AllServerNames == {ServerNameAt(i) : i \in 1..Len(ServerLetters)}

NoResult == [kind |-> "none", text |-> ""]
Returned(text) == [kind |-> "returned", text |-> text]
Raised(error) == [kind |-> "raised", text |-> error]
ReturnedGenerator == [kind |-> "generator", text |-> ""]

\* the agent's state when MCPAgent._initialize is about to start the servers
AgentInit(configs, calls, position) ==
    /\ servers_cfg \in configs
    /\ budget = calls
    /\ pc = position
    /\ cfg_i = 1
    /\ clients = [n \in AllServerNames |-> NoClient]
    /\ ok = [n \in AllServerNames |-> "unset"]
    /\ servers = <<>>
    /\ all_functions = <<>>
    /\ init_ret = "running"
    /\ has_conversation = FALSE
    /\ conversation = <<>>
    /\ model_calls = 0
    /\ tool_calls = <<>>
    /\ tc_i = 1
    /\ inflight = {}
    /\ final_text = ""
    /\ yielded = <<>>
    /\ prompt_ret = NoResult
    /\ result = NoResult
    /\ stream_end = "open"
    /\ cleaned = FALSE
    /\ stop_i = 1

\* an interaction with the given server configurations, tool-call budget and
\* system message keys
InitSeeded(configs, calls, system_configs) ==
    /\ entry \in {"run_interaction", "agent"}
    /\ stream \in BOOLEAN
    /\ use_reasoning \in BOOLEAN
    /\ system_cfg \in system_configs
    /\ AgentInit(configs, calls, "pool")
    /\ SplitIdle
    /\ SelectIdle
    /\ ChunkIdle
    /\ SpillIdle
    /\ SideIdle

InitWith(configs, calls) ==
    /\ entry \in {"run_interaction", "agent"}
    /\ stream \in BOOLEAN
    /\ use_reasoning \in BOOLEAN
    /\ system_cfg = NoSystemKeys
    /\ AgentInit(configs, calls, "pool")
    /\ SplitIdle
    /\ SelectIdle
    /\ ChunkIdle
    /\ SpillIdle
    /\ SideIdle

Init == InitWith({ReferenceConfig}, MaxToolCalls)

InitPool == InitWith(AllConfigs, PoolToolCalls)

InitSeed == InitSeeded({ReferenceConfig}, PoolToolCalls, SystemConfigs)

\* the split specification: a server name and a tool name, not yet joined and split
InitSplit ==
    /\ entry = "agent"
    /\ stream = FALSE
    /\ use_reasoning = FALSE
    /\ system_cfg = NoSystemKeys
    /\ AgentInit({<<>>}, 0, "split")
    /\ split_in \in NamesUpTo(MaxLen) \X NamesUpTo(MaxLen)
    /\ split_out = <<>>
    /\ route_out = NoRoute
    /\ SelectIdle
    /\ ChunkIdle
    /\ SpillIdle
    /\ SideIdle

(***************************************************************************)
(* Pool start: the loop over servers_cfg in MCPAgent._initialize.          *)
(***************************************************************************)
\* a pool start that passes over only the SSE entries without a URL
SkippedWithoutUrl(conf) == IsSse(conf) /\ ~conf.url

\* the entry is passed over without a client being started
Skipped(conf) == conf.disabled \/ (IsSse(conf) /\ ~conf.url)

\* the catalogue entries of one server
FunctionsOf(server_name, tools) ==
    [i \in 1..Len(tools) |-> CatalogueName(server_name, tools[i].name)]

\* one iteration of `for server_name, conf in servers_cfg.items()`
StartServer ==
    /\ pc = "pool"
    /\ cfg_i <= Len(servers_cfg)
    /\ LET name == servers_cfg[cfg_i].name
           conf == servers_cfg[cfg_i].conf
       IN  \/ /\ Skipped(conf)
              /\ cfg_i' = cfg_i + 1
              /\ UNCHANGED <<clients, ok, servers, all_functions, pc>>
           \/ /\ ~Skipped(conf)
              /\ \E so \in (IF IsSse(conf) THEN SseStartOutcomes ELSE StdioStartOutcomes),
                    lo \in ListOutcomes :
                    LET fresh == IF IsSse(conf) THEN NewSseClient ELSE NewStdioClient
                        started == IF IsSse(conf) THEN SseStart(fresh, so)
                                   ELSE StdioStart(fresh, so)
                        listed == IF IsSse(conf) THEN SseListTools(started, lo)
                                  ELSE StdioListTools(started, lo)
                        tools == ListedTools(started, listed, lo)
                    IN  IF StartSucceeded(so)
                        THEN /\ clients' = [clients EXCEPT ![name] = listed]
                             /\ ok' = [ok EXCEPT ![name] = "True"]
                             /\ servers' = Append(servers, name)
                             /\ all_functions' = all_functions \o FunctionsOf(name, tools)
                             /\ cfg_i' = cfg_i + 1
                             /\ pc' = pc
                        ELSE /\ clients' = [clients EXCEPT ![name] = started]
                             /\ ok' = [ok EXCEPT ![name] = "False"]
                             /\ cfg_i' = cfg_i + 1
                             /\ pc' = pc
                             /\ UNCHANGED <<servers, all_functions>>
    /\ UNCHANGED <<env_vars, loop_vars, pure_vars, init_ret, has_conversation,
                   conversation, prompt_ret, result, stream_end, cleaned, stop_i>>

\* the end of _initialize: the error sentinel when the pool is empty, otherwise
\* the conversation is created with the system message
FinishInit ==
    /\ pc = "pool"
    /\ cfg_i > Len(servers_cfg)
    /\ IF servers = <<>>
       THEN /\ init_ret' = NoServersError
            /\ UNCHANGED <<has_conversation, conversation>>
       ELSE /\ init_ret' = "None"
            /\ has_conversation' = TRUE
            /\ conversation' = SeedConversation(system_cfg)
    /\ pc' = "created"
    /\ UNCHANGED <<env_vars, loop_vars, pure_vars, cfg_i, clients, ok, servers,
                   all_functions, prompt_ret, result, stream_end, cleaned, stop_i>>

(***************************************************************************)
(* Model replies: what generate_text hands to the loop.                    *)
(***************************************************************************)
ToolCall(id, name, arguments) ==
    [id |-> id, type |-> "", name |-> name, arguments |-> arguments]

NameEcho == CatalogueName(ServerNameAt(1), ToolEcho.name)
NamePing == CatalogueName(ServerNameAt(1), ToolPing.name)
NameNoUnderscore == ToolEcho.name
NameUnknownServer == CatalogueName(<<"x">>, ToolEcho.name)

\* tool calls a provider adapter may hand over in either mode
StreamedCalls ==
    { ToolCall("c1", NameEcho, ArgsWithM),
      ToolCall("c2", NameEcho, ArgsEmpty),
      ToolCall("c3", NameNoUnderscore, ArgsEmpty),
      ToolCall("c4", NameUnknownServer, ArgsEmpty),
      ToolCall("c5", NameEcho, ArgsNull),
      ToolCall("c6", NamePing, ArgsBad),
      ToolCall("c7", NameEcho, ArgsList) }

\* the streaming adapter drops a call without a name before the final chunk;
\* the non-streaming adapters hand the name over as the provider gave it
BlockingCalls == StreamedCalls \cup {ToolCall("c8", <<>>, ArgsEmpty)}

\* the tool_calls of one reply: at most n calls
CallSeqs(pool, n) == UNION {[1..k -> pool] : k \in 0..n}

\* tc["type"] = "function" on every call
Annotate(calls) == [i \in 1..Len(calls) |-> [calls[i] EXCEPT !.type = "function"]]

(***************************************************************************)
(* The tool-call router: process_tool_call.                                *)
(***************************************************************************)
Range(seq) == {seq[i] : i \in 1..Len(seq)}

\* index of the first cached tool of that name, 0 when there is none
FindTool(tools, tool_name) ==
    IF \E i \in 1..Len(tools) : tools[i].name = tool_name
    THEN CHOOSE i \in 1..Len(tools) :
             tools[i].name = tool_name /\ \A j \in 1..(i - 1) : tools[j].name # tool_name
    ELSE 0

\* required_params when the tool has a (non-empty) schema, otherwise nothing
RequiredParams(tools, tool_name) ==
    LET i == FindTool(tools, tool_name)
    IN  IF i # 0 /\ tools[i].has_schema THEN tools[i].required ELSE <<>>

\* index of the first required parameter that is not in func_args, 0 when none
FirstMissing(required, func_args) ==
    IF \E i \in 1..Len(required) : required[i] \notin func_args.keys
    THEN CHOOSE i \in 1..Len(required) :
             /\ required[i] \notin func_args.keys
             /\ \A j \in 1..(i - 1) : required[j] \in func_args.keys
    ELSE 0

RouteReply(content) ==
    [act |-> "reply", content |-> content, server |-> <<>>, tool |-> <<>>, args |-> JsonNull]
RouteRaise ==
    [act |-> "raise", content |-> TextContent(""), server |-> <<>>, tool |-> <<>>,
     args |-> JsonNull]
RouteCall(server, tool, args) ==
    [act |-> "call", content |-> TextContent(""), server |-> server, tool |-> tool,
     args |-> args]

\* process_tool_call up to the call of call_tool: the tool message it returns
\* at once, the exception it raises, or the call_tool it makes
Route(tc, pool, cl) ==
    LET func_args == ParseArguments(tc.arguments)
        parts == SplitFirst(tc.name)
    IN  IF Len(parts) # 2
        THEN RouteReply(ErrorContent("Invalid function name format", <<>>))
        ELSE LET srv_name == parts[1]
                 tool_name == parts[2]
             IN  IF srv_name \notin Range(pool)
                 THEN RouteReply(ErrorContent("Unknown server: ", srv_name))
                 ELSE LET required == RequiredParams(cl[srv_name].tools, tool_name)
                          missing == FirstMissing(required, func_args)
                      IN  IF required # <<>> /\ ~SupportsIn(func_args)
                          THEN RouteRaise
                          ELSE IF missing # 0
                          THEN RouteReply(ErrorContent("Missing required parameter: ",
                                                       required[missing]))
                          ELSE IF cl[srv_name].transport = "stdio" /\ ~cl[srv_name].process
                          THEN RouteReply(ErrorContent("Not started", <<>>))
                          ELSE IF cl[srv_name].transport = "sse" /\ ~cl[srv_name].session
                          THEN RouteReply(ErrorContent("Not connected", <<>>))
                          ELSE RouteCall(srv_name, tool_name, func_args)

\* call_tool up to the wait for the reply: the tools/call request is sent
CallToolSend(c, tool_name, arguments) ==
    IF c.transport = "stdio"
    THEN LET numbered == [c EXCEPT !.request_id = @ + 1]
         IN  SendMessage(numbered, Request(numbered.request_id, "tools/call", tool_name,
                                           arguments))
    ELSE [c EXCEPT !.session_log = Append(@, Request(0, "tools/call", tool_name, arguments))]

\* the ways the wait of call_tool ends
CallOutcomes(c) ==
    IF c.transport = "stdio" THEN {"result", "rpc_error", "timeout"}
    ELSE {"result", "rpc_error"}

\* json.dumps(process_long_fields(result)) for a result without long fields,
\* and the error objects call_tool returns
CallContent(outcome, tool_name) ==
    CASE outcome = "result"    -> Content("result", "", tool_name)
      [] outcome = "rpc_error" -> ErrorContent("rpc error", <<>>)
      [] outcome = "timeout"   -> ErrorContent("Timeout waiting for tool result", <<>>)

(***************************************************************************)
(* MCPAgent.prompt and the orchestration loop of _prompt_original.         *)
(***************************************************************************)
ctl_vars == <<pc, prompt_ret, result, stream_end>>

\* the loop goes on at position p
Continue(p) ==
    /\ pc' = p
    /\ UNCHANGED <<prompt_ret, result, stream_end>>

\* the non-streaming loop is left: `finally: return final_text`
ReturnText(text) ==
    /\ prompt_ret' = Returned(text)
    /\ result' = IF entry = "agent" THEN Returned(text) ELSE result
    /\ pc' = "cleanup"
    /\ UNCHANGED stream_end

\* the streaming generator ends; an agent user calls cleanup() afterwards, under
\* run_interaction cleanup() has already run
EndStream(how) ==
    /\ stream_end' = how
    /\ pc' = IF cleaned THEN "done" ELSE "cleanup"
    /\ UNCHANGED <<prompt_ret, result>>

\* an exception leaves MCPAgent.prompt: run_interaction does not catch it
PromptRaises(error) ==
    /\ result' = Raised(error)
    /\ pc' = IF entry = "agent" THEN "cleanup" ELSE "done"
    /\ UNCHANGED <<prompt_ret, stream_end>>

\* MCPAgent.prompt up to the first model call
Prompt ==
    /\ pc = "created"
    /\ IF use_reasoning /\ ~stream
       THEN /\ Continue("reasoning")
            /\ UNCHANGED conversation
       ELSE IF ~has_conversation
       THEN /\ PromptRaises("AttributeError: 'MCPAgent' object has no attribute 'conversation'")
            /\ UNCHANGED conversation
       ELSE /\ conversation' = Append(conversation, UserMessage)
            /\ IF stream
               THEN /\ prompt_ret' = ReturnedGenerator
                    /\ result' = IF entry = "agent" THEN ReturnedGenerator ELSE result
                    /\ pc' = IF entry = "agent" THEN "model" ELSE "cleanup"
                    /\ UNCHANGED stream_end
               ELSE Continue("model")
    /\ UNCHANGED <<env_vars, pool_vars, loop_vars, pure_vars, has_conversation, cleaned,
                   stop_i>>

\* prompt_with_reasoning as a whole: it hands back the answer of the reasoning
\* loop, or an exception leaves it (reasoning_trace is None by default)
Reason ==
    /\ pc = "reasoning"
    /\ \/ ReturnText("reasoning answer")
       \/ PromptRaises("TypeError: 'NoneType' object is not callable")
    /\ UNCHANGED <<env_vars, pool_vars, loop_vars, pure_vars, has_conversation,
                   conversation, cleaned, stop_i>>

\* the calls a reply may carry in this mode
ReplyCalls == IF stream THEN StreamedCalls ELSE BlockingCalls

\* generate_text returns a reply: the assistant message is appended, and the
\* loop ends when the reply carries no tool calls
ModelReply ==
    /\ pc = "model"
    /\ \E calls \in CallSeqs(ReplyCalls, budget) :
          LET text == ReplyTexts[model_calls + 1]
              annotated == Annotate(calls)
          IN  /\ model_calls' = model_calls + 1
              /\ budget' = budget - Len(calls)
              /\ tool_calls' = annotated
              /\ tc_i' = 1
              /\ IF stream
                 THEN /\ yielded' = Append(yielded, text)
                      /\ final_text' = final_text
                      /\ IF calls = <<>>
                         THEN /\ conversation' = conversation
                              /\ EndStream("exhausted")
                         ELSE /\ conversation' = Append(conversation,
                                                        AssistantMessage(text, annotated))
                              /\ Continue("tools")
                 ELSE /\ yielded' = yielded
                      /\ final_text' = text
                      /\ conversation' = Append(conversation, AssistantMessage(text, annotated))
                      /\ IF calls = <<>> THEN ReturnText(text) ELSE Continue("tools")
    /\ UNCHANGED <<env_vars, pool_vars, pure_vars, has_conversation, inflight, cleaned,
                   stop_i>>

\* generate_text raises (a provider that is not set up, a transport error):
\* `finally: return final_text` swallows it, the streaming generator passes it on
ModelRaises ==
    /\ pc = "model"
    /\ IF stream THEN EndStream("raised") ELSE ReturnText(final_text)
    /\ UNCHANGED <<env_vars, pool_vars, loop_vars, pure_vars, has_conversation,
                   conversation, cleaned, stop_i>>

\* a for loop that does not wait for the call it made
NotAwaited(calls_in_flight) == TRUE

\* `result = await process_tool_call(...)`: the for loop goes on only when no call
\* it made is still awaited
Awaited(calls_in_flight) == calls_in_flight = {}

\* `if tc.get("function", {}).get("name")` of the streaming loop
StreamSkips(tc) == stream /\ tc.name = <<>>

\* tool_calls_processed of the streaming loop: a tool message was appended
RoundProcessed(conv) == conv # <<>> /\ conv[Len(conv)].role = "tool"

\* where the loop is once the for loop stands at next_i with in_flight awaited
AfterTool(next_i, in_flight, conv) ==
    IF next_i <= Len(tool_calls) \/ in_flight # {} THEN Continue("tools")
    ELSE IF stream /\ ~RoundProcessed(conv) THEN EndStream("exhausted")
    ELSE Continue("model")

\* the for loop reaches tool_calls[tc_i] and runs the router on it
Dispatch ==
    /\ pc = "tools"
    /\ tc_i <= Len(tool_calls)
    /\ Awaited(inflight)
    /\ LET tc == tool_calls[tc_i]
           r == Route(tc, servers, clients)
       IN  \/ /\ StreamSkips(tc) \/ r.act = "reply"
              /\ conversation' = IF StreamSkips(tc) THEN conversation
                                 ELSE Append(conversation, ToolMessage(tc, r.content))
              /\ tc_i' = tc_i + 1
              /\ AfterTool(tc_i + 1, inflight, conversation')
              /\ UNCHANGED <<clients, inflight>>
           \/ /\ ~StreamSkips(tc) /\ r.act = "raise"
              /\ tc_i' = tc_i + 1
              /\ IF stream THEN EndStream("raised") ELSE ReturnText(final_text)
              /\ UNCHANGED <<clients, inflight, conversation>>
           \/ /\ ~StreamSkips(tc) /\ r.act = "call"
              /\ clients' = [clients EXCEPT ![r.server] = CallToolSend(@, r.tool, r.args)]
              /\ inflight' = inflight \cup {tc_i}
              /\ tc_i' = tc_i + 1
              /\ Continue("tools")
              /\ UNCHANGED conversation
    /\ UNCHANGED <<env_vars, pure_vars, cfg_i, ok, servers, all_functions, init_ret,
                   has_conversation, model_calls, tool_calls, final_text, yielded, budget,
                   cleaned, stop_i>>

\* the wait of call_tool ends: the tool message is appended
ToolReturn ==
    /\ pc = "tools"
    /\ \E i \in inflight :
          LET tc == tool_calls[i]
              r == Route(tc, servers, clients)
          IN  \E outcome \in CallOutcomes(clients[r.server]) :
                 /\ conversation' = Append(conversation,
                                           ToolMessage(tc, CallContent(outcome, r.tool)))
                 /\ inflight' = inflight \ {i}
                 /\ AfterTool(tc_i, inflight', conversation')
    /\ UNCHANGED <<env_vars, pool_vars, pure_vars, has_conversation, model_calls,
                   tool_calls, tc_i, final_text, yielded, budget, cleaned, stop_i>>

(***************************************************************************)
(* MCPAgent.cleanup.                                                       *)
(***************************************************************************)
\* MCPClient.stop: the shutdown flag is set before the shutdown notification is
\* handed to _send_message; the process handle is cleared at the end
StdioStop(c) ==
    IF c.shutdown THEN c
    ELSE LET flagged == [c EXCEPT !.shutdown = TRUE]
             noted == SendMessage(flagged, Request(0, "shutdown", <<>>, JsonNull))
         IN  [noted EXCEPT !.process = FALSE]

\* the ways stop() of a client ends: the context exits of an SSE client are not
\* guarded
StopOutcomes(c) ==
    IF c.transport = "sse" /\ c.session THEN {"stopped", "raised"} ELSE {"stopped"}

\* one iteration of `for cli in self.servers.values(): await cli.stop()`
StopClient ==
    /\ pc = "cleanup"
    /\ stop_i <= Len(servers)
    /\ LET name == servers[stop_i]
       IN  \E outcome \in StopOutcomes(clients[name]) :
              IF outcome = "raised"
              THEN /\ result' = Raised("cleanup")
                   /\ pc' = "done"
                   /\ UNCHANGED <<clients, stop_i, prompt_ret, stream_end>>
              ELSE /\ clients' = [clients EXCEPT ![name] =
                                     IF @.transport = "stdio" THEN StdioStop(@) ELSE @]
                   /\ stop_i' = stop_i + 1
                   /\ Continue("cleanup")
    /\ UNCHANGED <<env_vars, loop_vars, pure_vars, cfg_i, ok, servers, all_functions,
                   init_ret, has_conversation, conversation, cleaned>>

\* self.servers.clear() and the return of cleanup(); run_interaction then hands
\* the response to its caller, who may iterate a generator
FinishCleanup ==
    /\ pc = "cleanup"
    /\ stop_i > Len(servers)
    /\ servers' = <<>>
    /\ cleaned' = TRUE
    /\ IF entry = "run_interaction"
       THEN /\ result' = prompt_ret
            /\ pc' = IF prompt_ret.kind = "generator" THEN "model" ELSE "done"
            /\ UNCHANGED <<prompt_ret, stream_end>>
       ELSE Continue("done")
    /\ UNCHANGED <<env_vars, loop_vars, pure_vars, cfg_i, clients, ok, all_functions,
                   init_ret, has_conversation, conversation, stop_i>>

Next ==
    \/ StartServer
    \/ FinishInit
    \/ Prompt
    \/ Reason
    \/ ModelReply
    \/ ModelRaises
    \/ Dispatch
    \/ ToolReturn
    \/ StopClient
    \/ FinishCleanup

\* one interaction on the reference configuration
Spec == Init /\ [][Next]_vars

\* one interaction on every configuration of at most MaxServers servers
SpecPool == InitPool /\ [][Next]_vars

\* one interaction on the reference configuration for every setting of the
\* system message keys
SpecSeed == InitSeed /\ [][Next]_vars

\* a tool as the server of the split specification lists it
ListedTool(tool_name) == [name |-> tool_name, has_schema |-> TRUE, required |-> <<>>]

\* the pool of the split specification: the one server, started, with its tool
\* listed
PoolClients(server_name, tool_name) ==
    [n \in {server_name} |->
        [StdioStart(NewStdioClient, "initialized") EXCEPT !.tools = <<ListedTool(tool_name)>>]]

\* the tool call a model makes with the catalogue name of (server, tool)
CatalogueCall(server_name, tool_name) ==
    ToolCall("c1", CatalogueName(server_name, tool_name), ArgsEmpty)

\* the router's split of the catalogue name of (server, tool), and what
\* process_tool_call does with a call of that name
SplitName ==
    /\ pc = "split"
    /\ split_out = <<>>
    /\ split_out' = SplitFirst(CatalogueName(split_in[1], split_in[2]))
    /\ route_out' = Route(CatalogueCall(split_in[1], split_in[2]), <<split_in[1]>>,
                          PoolClients(split_in[1], split_in[2]))
    /\ UNCHANGED <<env_vars, pool_vars, loop_vars, ctl_vars, has_conversation, conversation,
                   cleaned, stop_i, split_in, select_vars, chunk_vars, spill_vars, side_vars>>

NextSplit == SplitName

\* the split of the catalogue name of every pair of names of at most MaxLen characters
SpecSplit == InitSplit /\ [][NextSplit]_vars

(***************************************************************************)
(* Model selection: step 2 of MCPAgent._initialize.                        *)
(***************************************************************************)
ModelIds == {"a", "b"}

\* a record of the models list, as far as the selection looks at it; title ""
\* stands for a record without a title
ModelRecords == [model : ModelIds, title : ModelIds \cup {""}, default : BOOLEAN]

ModelLists == UNION {[1..n -> ModelRecords] : n \in 0..MaxModels}

\* the names a caller may ask for; "" stands for no name (None or "")
RequestedNames == ModelIds \cup {""}

\* index of the first record whose model or title is the name, 0 when none
FirstMatch(models, name) ==
    IF \E i \in 1..Len(models) : models[i].model = name \/ models[i].title = name
    THEN CHOOSE i \in 1..Len(models) :
             /\ models[i].model = name \/ models[i].title = name
             /\ \A j \in 1..(i - 1) : ~(models[j].model = name \/ models[j].title = name)
    ELSE 0

\* index of the first record with a true default, 0 when none
FirstDefault(models) ==
    IF \E i \in 1..Len(models) : models[i].default
    THEN CHOOSE i \in 1..Len(models) :
             models[i].default /\ \A j \in 1..(i - 1) : ~models[j].default
    ELSE 0

\* a selection that falls back to the first record whether or not a name was given
ChooseWithFirstRecord(name, models) ==
    IF name # "" /\ FirstMatch(models, name) # 0 THEN FirstMatch(models, name)
    ELSE IF FirstDefault(models) # 0 THEN FirstDefault(models)
    ELSE IF models # <<>> THEN 1
    ELSE 0

\* the two branches of `if model_name:`; the result is the index of
\* self.chosen_model, 0 for None ("No suitable model found in provider_config.")
ChooseModel(name, models) ==
    IF name # ""
    THEN IF FirstMatch(models, name) # 0 THEN FirstMatch(models, name)
         ELSE FirstDefault(models)
    ELSE IF FirstDefault(models) # 0 THEN FirstDefault(models)
         ELSE IF models # <<>> THEN 1
         ELSE 0

\* the selection specification: a models list and a requested name
InitSelect ==
    /\ entry = "agent"
    /\ stream = FALSE
    /\ use_reasoning = FALSE
    /\ system_cfg = NoSystemKeys
    /\ AgentInit({<<>>}, 0, "select")
    /\ SplitIdle
    /\ model_name \in RequestedNames
    /\ models_cfg \in ModelLists
    /\ chosen_model = 0
    /\ ChunkIdle
    /\ SpillIdle
    /\ SideIdle

\* step 2 of _initialize
SelectModel ==
    /\ pc = "select"
    /\ chosen_model' = ChooseModel(model_name, models_cfg)
    /\ pc' = "selected"
    /\ UNCHANGED <<env_vars, pool_vars, loop_vars, split_vars, has_conversation,
                   conversation, prompt_ret, result, stream_end, cleaned, stop_i,
                   model_name, models_cfg, chunk_vars, spill_vars, side_vars>>

NextSelect == SelectModel

\* the selection for every models list of at most MaxModels records
SpecSelect == InitSelect /\ [][NextSelect]_vars

(***************************************************************************)
(* One streamed generation: generate_with_openai_stream and the part of    *)
(* stream_response that consumes its chunks.  Texts are sequences of       *)
(* characters.                                                             *)
(***************************************************************************)
\* the contents a delta may carry
DeltaContents == {<<"a">>, <<"O">>}

DeltaStreams == UNION {[1..n -> DeltaContents] : n \in 0..MaxDeltas}

\* f"OpenAI error: {str(e)}"
ErrorText == <<"O", "!">>

\* text[len(accumulated):]
SliceFrom(text, accumulated) ==
    IF Len(accumulated) >= Len(text) THEN <<>>
    ELSE SubSeq(text, Len(accumulated) + 1, Len(text))

\* what stream_response yields on the final chunk: the rest of its text when
\* accumulated_text differs from it
Remaining(text, accumulated) ==
    IF accumulated # text THEN SliceFrom(text, accumulated) ELSE <<>>

\* the chunk specification: a provider stream of at most MaxDeltas deltas
InitChunks ==
    /\ entry = "agent"
    /\ stream = TRUE
    /\ use_reasoning = FALSE
    /\ system_cfg = NoSystemKeys
    /\ AgentInit({<<>>}, 0, "chunks")
    /\ SplitIdle
    /\ SelectIdle
    /\ SpillIdle
    /\ SideIdle
    /\ \E ds \in DeltaStreams : ChunksBegin(ds)

main_vars == <<env_vars, pool_vars, loop_vars, has_conversation, conversation, prompt_ret,
               result, stream_end, cleaned, stop_i>>

\* a delta with content arrives: the adapter yields it as a token chunk, the
\* loop yields it to its caller and accumulates it
TokenChunk ==
    /\ pc = "chunks"
    /\ deltas # <<>>
    /\ LET content == Head(deltas)
       IN  /\ deltas' = Tail(deltas)
           /\ current_content' = current_content \o content
           /\ token_text' = token_text \o content
           /\ accumulated_text' = accumulated_text \o content
           /\ received_text' = received_text \o content
    /\ UNCHANGED <<main_vars, pc, split_vars, select_vars, spill_vars, side_vars,
                   final_chunk>>

\* the loop gets a final chunk with this text
FinalChunk(text) ==
    /\ final_chunk' = [sent |-> TRUE, text |-> text]
    /\ received_text' = received_text \o Remaining(text, accumulated_text)
    /\ pc' = "chunks_end"
    /\ UNCHANGED <<main_vars, split_vars, select_vars, spill_vars, side_vars, deltas,
                   current_content, token_text, accumulated_text>>

\* the chunk with the finish reason arrives after the last delta
FinishChunk ==
    /\ pc = "chunks"
    /\ deltas = <<>>
    /\ FinalChunk(current_content)

\* the provider call or the provider stream raises: `except Exception`
ErrorChunk ==
    /\ pc = "chunks"
    /\ FinalChunk(ErrorText)

\* the provider stream ends without a finish reason: no final chunk
StreamCloses ==
    /\ pc = "chunks"
    /\ deltas = <<>>
    /\ pc' = "chunks_end"
    /\ UNCHANGED <<main_vars, split_vars, select_vars, spill_vars, side_vars, chunk_vars>>

NextChunks == TokenChunk \/ FinishChunk \/ ErrorChunk \/ StreamCloses

\* one streamed generation for every provider stream of at most MaxDeltas deltas
SpecChunks == InitChunks /\ [][NextChunks]_vars

(***************************************************************************)
(* process_long_fields on one tool result, and again on what it returned.  *)
(***************************************************************************)

\* the spill specification: a tool result and a threshold
InitSpill ==
    /\ entry = "agent"
    /\ stream = FALSE
    /\ use_reasoning = FALSE
    /\ system_cfg = NoSystemKeys
    /\ AgentInit({<<>>}, 0, "spill")
    /\ SplitIdle
    /\ SelectIdle
    /\ ChunkIdle
    /\ SideIdle
    /\ \E value \in ToolResults, threshold \in MaxLengths : SpillBegin(value, threshold)

\* tempfile.NamedTemporaryFile and json.dump succeed, or one of them raises
TempFileOutcomes == {"written", "failed"}

\* one call of process_long_fields on this value
SpillCall(value, out) ==
    \E io \in TempFileOutcomes :
        /\ out = process_long_fields(value, max_length, Len(temp_files) + 1, io)
        /\ temp_files' = temp_files \o out.written

\* process_long_fields(tool_result, max_length)
Spill ==
    /\ pc = "spill"
    /\ SpillCall(tool_result, spill_out')
    /\ pc' = "spilled"
    /\ UNCHANGED <<main_vars, split_vars, select_vars, chunk_vars, side_vars, tool_result,
                   max_length,
                   respill_out>>

\* process_long_fields on the value the first call returned
SpillAgain ==
    /\ pc = "spilled"
    /\ spill_out.status = "returned"
    /\ SpillCall(spill_out.value, respill_out')
    /\ pc' = "respilled"
    /\ UNCHANGED <<main_vars, split_vars, select_vars, chunk_vars, side_vars, tool_result,
                   max_length,
                   spill_out>>

NextSpill == Spill \/ SpillAgain

\* process_long_fields twice for every tool result and threshold of the domain
SpecSpill == InitSpill /\ [][NextSpill]_vars

(***************************************************************************)
(* Properties of the conversation.                                         *)
(***************************************************************************)
IsCallingAssistant(m) == m.role = "assistant" /\ m.tool_calls # <<>>

\* position of the last assistant message that carries tool calls, 0 when none
LastCalling(conv) ==
    IF \E p \in 1..Len(conv) : IsCallingAssistant(conv[p])
    THEN CHOOSE p \in 1..Len(conv) :
             /\ IsCallingAssistant(conv[p])
             /\ \A q \in (p + 1)..Len(conv) : ~IsCallingAssistant(conv[q])
    ELSE 0

\* the message at position p answers the tool call tc
AnswersCall(conv, p, tc) ==
    /\ p <= Len(conv)
    /\ conv[p].role = "tool"
    /\ conv[p].tool_call_id = tc.id

\* the assistant message at position p is followed by one tool message per call,
\* in the order of the calls, and by no further tool message
FollowedByToolMessages(conv, p) ==
    LET k == Len(conv[p].tool_calls)
    IN  /\ \A j \in 1..k : AnswersCall(conv, p + j, conv[p].tool_calls[j])
        /\ (p + k + 1 <= Len(conv) => conv[p + k + 1].role # "tool")

\* C1: whenever the loop is not in the middle of a round of tool calls, every
\* assistant message with k tool calls is followed by exactly k tool messages,
\* in the order of the calls and with their ids
C1_ToolMessagesFollowCalls ==
    (pc \in {"model", "cleanup", "done"}) =>
        \A p \in 1..Len(conversation) :
            IsCallingAssistant(conversation[p]) => FollowedByToolMessages(conversation, p)

\* C2: during a round at most one tool call is in flight, it is the call the
\* for loop made last, and every call made before it has its tool message in the
\* conversation, at its place after the assistant message
C2_SequentialDispatch ==
    (pc = "tools") =>
        /\ Cardinality(inflight) <= 1
        /\ inflight \subseteq {tc_i - 1}
        /\ \A j \in (1..(tc_i - 1)) \ inflight :
               AnswersCall(conversation, LastCalling(conversation) + j, tool_calls[j])

\* the second call of a reply is in flight and the tool message of the first
\* one is the last message of the conversation
C2_Witness ==
    /\ pc = "tools"
    /\ inflight = {2}
    /\ AnswersCall(conversation, Len(conversation), tool_calls[1])
    /\ conversation[Len(conversation) - 1].role = "assistant"

LastMessage == conversation[Len(conversation)]

\* C3: the non-streaming loop has returned exactly when the last reply carries
\* no tool calls, and what it returned is the text of that reply
C3_ReturnsOnFinalReply ==
    (~stream /\ ~use_reasoning) =>
        /\ (prompt_ret.kind = "returned") =>
               /\ conversation # <<>>
               /\ LastMessage.role = "assistant"
               /\ LastMessage.tool_calls = <<>>
               /\ prompt_ret.text = LastMessage.content.text
        /\ (conversation # <<>> /\ LastMessage.role = "assistant"
                /\ LastMessage.tool_calls = <<>>) =>
               prompt_ret = Returned(LastMessage.content.text)

\* C4: every tool call the router has been run on and that is not awaited any
\* more has its tool message, with its id, in the conversation
C4_OneToolMessagePerCall ==
    (tool_calls # <<>>) =>
        \A j \in (1..(tc_i - 1)) \ inflight :
            AnswersCall(conversation, LastCalling(conversation) + j, tool_calls[j])

\* the required parameters of the called tool that the parsed arguments of the
\* call do not carry (all of them when the arguments are no object)
LackedParams(tc) ==
    LET parts == SplitFirst(tc.name)
        func_args == ParseArguments(tc.arguments)
    IN  IF Len(parts) # 2 \/ parts[1] \notin Range(servers) THEN {}
        ELSE {p \in Range(RequiredParams(clients[parts[1]].tools, parts[2])) :
                  ~(func_args.t = "object" /\ p \in func_args.keys)}

\* C5: when the router is run on a call that lacks a required parameter, the
\* step appends the "Missing required parameter" tool message for a lacked
\* parameter and leaves every client (request id, stdin) as it was
C5_MissingParameterNotSent ==
    [][(pc = "tools" /\ tc_i <= Len(tool_calls) /\ tc_i' = tc_i + 1
            /\ LackedParams(tool_calls[tc_i]) # {}) =>
           /\ clients' = clients
           /\ \E p \in LackedParams(tool_calls[tc_i]) :
                  conversation' = Append(conversation,
                      ToolMessage(tool_calls[tc_i],
                                  ErrorContent("Missing required parameter: ", p)))]_vars

\* the requests handed to the server behind client c
RequestsOf(c) == Range(c.stdin) \cup Range(c.session_log)

\* C6: the arguments of every tools/call request are a JSON object
C6_CallToolGetsObject ==
    \A n \in AllServerNames :
        \A req \in RequestsOf(clients[n]) :
            req.method = "tools/call" => req.args.t = "object"

\* C7: a server name and a tool name without underscore are what the split of
\* their catalogue name gives back
C7_SplitRecovers ==
    (split_out # <<>> /\ ~HasUnderscore(split_in[1]) /\ ~HasUnderscore(split_in[2])) =>
        split_out = <<split_in[1], split_in[2]>>

\* the catalogue name of two non-empty names without underscore has been split
C7_Witness ==
    /\ split_in = <<<<"a", "b">>, <<"b">>>>
    /\ split_out = <<<<"a", "b">>, <<"b">>>>

\* C8: when pool start ended with no client, what the caller of the interaction
\* gets is the error sentinel
C8_SentinelSurfaced ==
    (pc = "done" /\ init_ret = NoServersError) => result.text = NoServersError

AllDisabled(cfg) == cfg # <<>> /\ \A i \in 1..Len(cfg) : cfg[i].conf.disabled

\* C9: with every configured server disabled, the interaction calls the model
\* and hands its reply to the caller, and the error sentinel is not produced
C9_AllDisabledProceeds ==
    (pc = "done" /\ AllDisabled(servers_cfg) /\ ~use_reasoning) =>
        /\ init_ret # NoServersError
        /\ model_calls > 0
        /\ IF stream THEN result = ReturnedGenerator /\ yielded # <<>>
           ELSE result = Returned(ReplyTexts[model_calls])

\* C10: once pool start is over the pool holds exactly the entries that are not
\* disabled and whose start succeeded, no client exists for a disabled entry, and
\* a client was started for every other entry that names what to start
C10_PoolIsStartedServers ==
    (pc \notin {"pool", "split"} /\ ~cleaned) =>
        /\ Range(servers) =
               {servers_cfg[i].name : i \in {j \in 1..Len(servers_cfg) :
                    /\ ~servers_cfg[j].conf.disabled
                    /\ ok[servers_cfg[j].name] = "True"}}
        /\ \A i \in 1..Len(servers_cfg) :
               LET conf == servers_cfg[i].conf
                   c == clients[servers_cfg[i].name]
               IN  /\ conf.disabled => c = NoClient /\ ok[servers_cfg[i].name] = "unset"
                   /\ (~conf.disabled /\ (IsSse(conf) => conf.url)) =>
                          c.transport # "none" /\ ok[servers_cfg[i].name] # "unset"

\* the start of the first server failed, the second one is in the pool
C10_Witness ==
    /\ pc = "created"
    /\ Len(servers_cfg) = 2
    /\ ok[servers_cfg[1].name] = "False"
    /\ servers = <<servers_cfg[2].name>>

MatchingRecords == {i \in 1..Len(models_cfg) :
                        models_cfg[i].model = model_name \/ models_cfg[i].title = model_name}

DefaultRecords == {i \in 1..Len(models_cfg) : models_cfg[i].default}

Least(indices) == CHOOSE i \in indices : \A j \in indices : i <= j

\* C11 as stated: the first record matching the requested name, otherwise the
\* first default record, otherwise the first record, and an error (no record)
\* only for an empty list
C11_FallsBackToFirstRecord ==
    (pc = "selected") =>
        chosen_model =
            IF model_name # "" /\ MatchingRecords # {} THEN Least(MatchingRecords)
            ELSE IF DefaultRecords # {} THEN Least(DefaultRecords)
            ELSE IF models_cfg # <<>> THEN 1
            ELSE 0

\* C11: the first record matching the requested name, otherwise the first
\* default record, otherwise the first record when no name was requested;
\* otherwise no record is chosen: a requested name without match and without
\* default record is an error whatever the list holds
C11_ModelSelection ==
    (pc = "selected") =>
        chosen_model =
            IF model_name # "" /\ MatchingRecords # {} THEN Least(MatchingRecords)
            ELSE IF DefaultRecords # {} THEN Least(DefaultRecords)
            ELSE IF model_name = "" /\ models_cfg # <<>> THEN 1
            ELSE 0

\* a name was requested that no record carries, the list has records but no
\* default: no model is chosen
C11_Witness ==
    /\ pc = "selected"
    /\ model_name # ""
    /\ models_cfg # <<>>
    /\ MatchingRecords = {}
    /\ DefaultRecords = {}
    /\ chosen_model = 0

\* C12: once the conversation exists it begins with a system message; the
\* contents of a readable systemMessageFile are among its system messages, a
\* configured systemMessage is among them unless the file took its place, and
\* with none of the keys the default message is the first message
C12_BeginsWithSystemMessage ==
    has_conversation =>
        /\ conversation # <<>>
        /\ conversation[1].role = "system"
        /\ (system_cfg.file = "readable") => FileSystemMessage \in Range(conversation)
        /\ (system_cfg.message /\ system_cfg.file # "readable") =>
               ConfiguredSystemMessage \in Range(conversation)
        /\ (system_cfg = NoSystemKeys) => conversation[1] = SystemMessage

\* C13: under run_interaction no step in which the model replies or the for
\* loop runs the router on a tool call is taken once cleanup() has completed
C13_NoWorkAfterCleanup ==
    [][(entry = "run_interaction" /\ (model_calls' = model_calls + 1 \/ tc_i' = tc_i + 1))
           => ~cleaned]_vars

\* the assistant messages of the conversation, in order
AssistantMessages(conv) == SelectSeq(conv, LAMBDA m : m.role = "assistant")

\* C14: in either mode, once the model has given a reply without tool calls,
\* the assistant messages of the conversation are the replies of the model, one
\* per reply, and that last reply is the last message of the conversation
C14_SameConversationInBothModes ==
    (~use_reasoning /\ model_calls > 0 /\ tool_calls = <<>>) =>
        /\ Len(AssistantMessages(conversation)) = model_calls
        /\ \A k \in 1..Len(AssistantMessages(conversation)) :
               AssistantMessages(conversation)[k].content = TextContent(ReplyTexts[k])
        /\ LastMessage = AssistantMessage(ReplyTexts[model_calls], <<>>)

\* C15: once the final chunk of a streamed generation was yielded, the token
\* chunks yielded before it concatenate to its assistant_text, and what the
\* streaming loop yielded to its caller for this generation is that text too
C15_StreamedTextIsFinalText ==
    final_chunk.sent =>
        /\ token_text = final_chunk.text
        /\ received_text = final_chunk.text

(***************************************************************************)
(* execute_reasoning_loop on one reasoner, call after call.                *)
(***************************************************************************)

\* the reasoning specification: a reasoner of every configuration
InitReason ==
    /\ entry = "agent"
    /\ stream = FALSE
    /\ use_reasoning = TRUE
    /\ system_cfg = NoSystemKeys
    /\ AgentInit({<<>>}, 0, "reason")
    /\ SplitIdle
    /\ SelectIdle
    /\ ChunkIdle
    /\ SpillIdle
    /\ \E config \in ReasoningConfigs : ReasonerBegin(config)
    /\ WireIdle
    /\ AdapterIdle

other_vars == <<main_vars, split_vars, select_vars, chunk_vars, spill_vars, wire_vars,
                adapter_vars>>

\* self.config.reasoning_trace(...): a TypeError when it is None
TraceRaises == r_cfg.reasoning_trace = "None"

\* the call without `self.python_context = {}`
KeepContext(context) == context
\* self.python_context = {}
ResetContext(context) == {}

\* the call up to the loop: the context is reset; the first trace call (of the
\* first iteration, or of the end of the loop) raises when there is no callback
ReasonBegin ==
    /\ pc = "reason"
    /\ python_context' = ResetContext(python_context)
    /\ IF TraceRaises
       THEN /\ r_result' = ReasonResult("raised", FALSE, "TypeError")
            /\ pc' = "reason_raised"
       ELSE /\ pc' = "reason_loop"
            /\ UNCHANGED r_result
    /\ UNCHANGED <<other_vars, r_cfg, r_session, r_i, sys_stdout, r_reply, r_obs,
                   r_model_calls, session_bound, ever_bound>>

\* one iteration of the loop
ReasonStep ==
    /\ pc = "reason_loop"
    /\ r_i < r_cfg.max_iterations
    /\ \E reply \in ModelResults :
          LET it == Iteration(reply, r_cfg, python_context, sys_stdout)
              ending == it.obs.ending
          IN  /\ r_reply' = reply
              /\ r_obs' = it.obs
              /\ r_i' = r_i + 1
              /\ r_model_calls' = r_model_calls + it.obs.calls
              /\ python_context' = it.run.context
              /\ sys_stdout' = it.run.stdout
              /\ session_bound' = session_bound \cup it.run.bound
              /\ ever_bound' = ever_bound \cup it.run.bound
              /\ r_result' = CASE ending = "final"   -> ReasonResult("returned", TRUE, "answer")
                               [] ending = "error"   -> ReasonResult("returned", FALSE,
                                                                     "Error during reasoning")
                               [] ending = "escaped" -> ReasonResult("raised", FALSE, "SystemExit")
                               [] OTHER              -> r_result
              /\ pc' = CASE ending \in {"final", "error"} -> "reason_returned"
                         [] ending = "escaped"            -> "reason_raised"
                         [] OTHER                         -> "reason_loop"
    /\ UNCHANGED <<other_vars, r_cfg, r_session>>

\* the loop has run max_iterations times without a return
ReasonEnd ==
    /\ pc = "reason_loop"
    /\ r_i >= r_cfg.max_iterations
    /\ r_result' = ReasonResult("returned", FALSE,
                                "Process stopped after reaching maximum iterations (N).")
    /\ r_obs' = Observation(<<"Reached max iterations">>, <<>>, <<>>, <<>>, 0, "max")
    /\ pc' = "reason_returned"
    /\ UNCHANGED <<other_vars, r_cfg, r_session, r_i, python_context, sys_stdout, r_reply,
                   r_model_calls, session_bound, ever_bound>>

\* the caller calls execute_reasoning_loop on the same reasoner again
ExecuteAgain ==
    /\ pc \in {"reason_returned", "reason_raised"}
    /\ r_session < MaxSessions
    /\ r_session' = r_session + 1
    /\ r_i' = 0
    /\ r_reply' = NoReply
    /\ r_obs' = NoObservation
    /\ r_result' = NoReasonResult
    /\ r_model_calls' = 0
    /\ session_bound' = {}
    /\ pc' = "reason"
    /\ UNCHANGED <<other_vars, r_cfg, python_context, sys_stdout, ever_bound>>

NextReason == ReasonBegin \/ ReasonStep \/ ReasonEnd \/ ExecuteAgain

\* MaxSessions calls of execute_reasoning_loop for every configuration and
\* every model result
SpecReason == InitReason /\ [][NextReason]_vars

(***************************************************************************)
(* One started client: call_tool, list_tools, the receive loop and stop(), *)
(* step by step.                                                           *)
(***************************************************************************)
StartedClients ==
    {StdioStart(NewStdioClient, "initialized"), SseStart(NewSseClient, "connected")}

\* the client specification: a started client of either transport
InitWire ==
    /\ entry = "agent"
    /\ stream = FALSE
    /\ use_reasoning = FALSE
    /\ system_cfg = NoSystemKeys
    /\ AgentInit({<<>>}, 0, "wire")
    /\ SplitIdle
    /\ SelectIdle
    /\ ChunkIdle
    /\ SpillIdle
    /\ ReasonIdle
    /\ AdapterIdle
    /\ \E c \in StartedClients :
          \E kind \in (IF c.transport = "stdio" THEN ChildKinds ELSE {"cooperative"}) :
             WireBegin(c, kind)

unwired_vars == <<pc, main_vars, split_vars, select_vars, chunk_vars, spill_vars,
                  reason_vars, adapter_vars>>

\* what call_tool returns
CallResult(id) == [kind |-> "result", id |-> id]
\* {"error": resp["error"]}
CallError(id) == [kind |-> "error", id |-> id]
\* {"error": str(e)}
CallErrorText(id) == [kind |-> "error_text", id |-> id]
\* {"error": "Timeout waiting for tool result after ..."}
CallTimeout == [kind |-> "timeout", id |-> 0]
\* {"error": "Not started"} and {"error": "Not connected"}
CallRefused == [kind |-> "refused", id |-> 0]

Returns(outcome) == [call EXCEPT !.state = "returned", !.outcome = outcome]

\* a wait loop that takes whatever reply is stored
AnyResponse(stored, rid) == stored

\* `if rid in self.responses: resp = self.responses[rid]`
Matching(stored, rid) == {resp \in stored : resp.id = rid}

\* call_tool up to its wait: refused without a process or a session, else the
\* request is sent and the wait begins
CallTool ==
    /\ pc = "wire"
    /\ call.state # "waiting"
    /\ calls_made < MaxCalls
    /\ calls_made' = calls_made + 1
    /\ IF (w_client.transport = "stdio" /\ ~w_client.process)
             \/ (w_client.transport = "sse" /\ ~w_client.session)
       THEN /\ call' = [NoCall EXCEPT !.state = "returned", !.outcome = CallRefused]
            /\ UNCHANGED w_client
       ELSE /\ w_client' = CallToolSend(w_client, ToolEcho.name, JsonObject({ParamM}))
            /\ call' = [NoCall EXCEPT !.state = "waiting",
                                      !.rid = IF w_client.transport = "stdio"
                                              THEN w_client'.request_id ELSE calls_made']
    /\ UNCHANGED <<unwired_vars, responses, replied, child, stop_log, cleanup_lock,
                   stop_pc, receive_task, stdout_pipe, listing>>

\* MCPClient.list_tools up to its wait, called once while call_tool calls go on
ListTools ==
    /\ pc = "wire"
    /\ w_client.transport = "stdio"
    /\ listing.state = "none"
    /\ w_client' = StdioListTools(w_client, "list_failed")
    /\ listing' = IF w_client.process
                  THEN [NoCall EXCEPT !.state = "waiting", !.rid = w_client'.request_id]
                  ELSE [NoCall EXCEPT !.state = "returned", !.outcome = CallRefused]
    /\ UNCHANGED <<unwired_vars, responses, replied, child, stop_log, cleanup_lock,
                   stop_pc, receive_task, call, calls_made, stdout_pipe>>

\* the lines a server may answer a request with: a result, an error, or a
\* result longer than the limit of the stdout reader
ReplyKinds(method) ==
    IF method = "tools/call" THEN {"result", "error", "oversized"} ELSE {"result", "error"}

\* the child answers a request it read, once, by a line on its stdout
ServerReplies ==
    /\ pc = "wire"
    /\ w_client.transport = "stdio"
    /\ ~child.exited
    /\ child.spawn = 1
    /\ \E i \in 1..Len(w_client.stdin) :
          LET req == w_client.stdin[i]
          IN  /\ req.method \in {"tools/call", "tools/list"}
              /\ req.id \notin replied
              /\ \E kind \in ReplyKinds(req.method) :
                    stdout_pipe' = Append(stdout_pipe, [id |-> req.id, kind |-> kind])
              /\ replied' = replied \cup {req.id}
    /\ UNCHANGED <<unwired_vars, w_client, responses, child, stop_log, cleanup_lock,
                   stop_pc, receive_task, call, calls_made, listing>>

\* the child exits or closes its stdout
ChildExits ==
    /\ pc = "wire"
    /\ w_client.transport = "stdio"
    /\ ~child.exited
    /\ child' = [child EXCEPT !.exited = TRUE]
    /\ UNCHANGED <<unwired_vars, w_client, responses, replied, stop_log, cleanup_lock,
                   stop_pc, receive_task, call, calls_made, stdout_pipe, listing>>

\* one iteration of _receive_loop with a line to read: _process_message stores
\* a response by its id; readline() raises on a line over the limit and the
\* loop ends in `except Exception: pass`
Receive ==
    /\ pc = "wire"
    /\ receive_task
    /\ stdout_pipe # <<>>
    /\ stdout_pipe' = Tail(stdout_pipe)
    /\ IF Head(stdout_pipe).kind = "oversized"
       THEN /\ receive_task' = FALSE
            /\ UNCHANGED responses
       ELSE /\ responses' = responses \cup {Head(stdout_pipe)}
            /\ UNCHANGED receive_task
    /\ UNCHANGED <<unwired_vars, w_client, replied, child, stop_log, cleanup_lock,
                   stop_pc, call, calls_made, listing>>

\* the iteration that reads the end of the stream: the loop ends and nothing
\* else is done
ReceiveEof ==
    /\ pc = "wire"
    /\ receive_task
    /\ child.exited
    /\ stdout_pipe = <<>>
    /\ receive_task' = FALSE
    /\ UNCHANGED <<unwired_vars, w_client, responses, replied, child, stop_log,
                   cleanup_lock, stop_pc, call, calls_made, stdout_pipe, listing>>

\* an iteration of the wait loop of MCPClient.call_tool that finds the reply
CallReturns ==
    /\ pc = "wire"
    /\ w_client.transport = "stdio"
    /\ call.state = "waiting"
    /\ \E resp \in Matching(responses, call.rid) :
          /\ responses' = responses \ {resp}
          /\ call' = Returns(IF resp.kind = "error" THEN CallError(resp.id)
                             ELSE CallResult(resp.id))
    /\ UNCHANGED <<unwired_vars, w_client, replied, child, stop_log, cleanup_lock,
                   stop_pc, receive_task, calls_made, stdout_pipe, listing>>

\* an iteration that finds none: it sleeps, and the loop ends with the timeout
\* error once tool_timeout has passed
CallSleeps ==
    /\ pc = "wire"
    /\ w_client.transport = "stdio"
    /\ call.state = "waiting"
    /\ Matching(responses, call.rid) = {}
    /\ call' = IF call.elapsed + 1 < ToolTimeout
               THEN [call EXCEPT !.elapsed = @ + 1]
               ELSE [Returns(CallTimeout) EXCEPT !.elapsed = call.elapsed + 1]
    /\ UNCHANGED <<unwired_vars, w_client, responses, replied, child, stop_log,
                   cleanup_lock, stop_pc, receive_task, calls_made, stdout_pipe, listing>>

\* an iteration of the wait loop of list_tools that finds the reply: the tools
\* of a result are cached
ListReturns ==
    /\ pc = "wire"
    /\ listing.state = "waiting"
    /\ \E resp \in Matching(responses, listing.rid) :
          /\ responses' = responses \ {resp}
          /\ listing' = [listing EXCEPT !.state = "returned",
                                        !.outcome = IF resp.kind = "error"
                                                    THEN CallError(resp.id)
                                                    ELSE CallResult(resp.id)]
          /\ w_client' = IF resp.kind = "error" THEN w_client
                         ELSE [w_client EXCEPT !.tools = ServerTools]
    /\ UNCHANGED <<unwired_vars, replied, child, stop_log, cleanup_lock, stop_pc,
                   receive_task, call, calls_made, stdout_pipe>>

\* an iteration that finds none, and the end of the loop after its timeout
ListSleeps ==
    /\ pc = "wire"
    /\ listing.state = "waiting"
    /\ Matching(responses, listing.rid) = {}
    /\ listing' = IF listing.elapsed + 1 < ListTimeout
                  THEN [listing EXCEPT !.elapsed = @ + 1]
                  ELSE [listing EXCEPT !.elapsed = @ + 1, !.state = "returned",
                                       !.outcome = CallTimeout]
    /\ UNCHANGED <<unwired_vars, w_client, responses, replied, child, stop_log,
                   cleanup_lock, stop_pc, receive_task, call, calls_made, stdout_pipe>>

\* `await self.session.call_tool(...)` ends: with the result, or with an
\* exception that is caught
SseCallReturns ==
    /\ pc = "wire"
    /\ w_client.transport = "sse"
    /\ call.state = "waiting"
    /\ \E kind \in {"result", "error"} :
          call' = Returns(IF kind = "error" THEN CallErrorText(call.rid)
                          ELSE CallResult(call.rid))
    /\ UNCHANGED <<unwired_vars, w_client, responses, replied, child, stop_log,
                   cleanup_lock, stop_pc, receive_task, calls_made, stdout_pipe, listing>>

\* time passes while `await self.session.call_tool(...)` has not ended: the
\* await has no timeout
SseCallWaits ==
    /\ pc = "wire"
    /\ w_client.transport = "sse"
    /\ call.state = "waiting"
    /\ call.elapsed <= ToolTimeout
    /\ call' = [call EXCEPT !.elapsed = @ + 1]
    /\ UNCHANGED <<unwired_vars, w_client, responses, replied, child, stop_log,
                   cleanup_lock, stop_pc, receive_task, calls_made, stdout_pipe, listing>>

At(t, position) == [stop_pc EXCEPT ![t] = position]

\* MCPClient.stop up to its first await: the lock is taken, a call on a client
\* that is shutting down returns, else the flag is set and the receive task
\* cancelled
StopEnter(t) ==
    /\ pc = "wire"
    /\ w_client.transport = "stdio"
    /\ stop_pc[t] = "idle"
    /\ cleanup_lock = 0
    /\ IF w_client.shutdown
       THEN /\ stop_pc' = At(t, "returned")
            /\ UNCHANGED <<w_client, cleanup_lock, receive_task>>
       ELSE /\ w_client' = [w_client EXCEPT !.shutdown = TRUE]
            /\ receive_task' = FALSE
            /\ cleanup_lock' = IF w_client.process THEN t ELSE 0
            /\ stop_pc' = At(t, IF w_client.process THEN "notify" ELSE "returned")
    /\ UNCHANGED <<unwired_vars, responses, replied, child, stop_log, call, calls_made,
                   stdout_pipe, listing>>

\* await self._send_message(note); await asyncio.sleep(0.5)
StopNotify(t) ==
    /\ pc = "wire"
    /\ stop_pc[t] = "notify"
    /\ w_client' = SendMessage(w_client, Request(0, "shutdown", <<>>, JsonNull))
    /\ stop_pc' = At(t, "terminate")
    /\ UNCHANGED <<unwired_vars, responses, replied, child, stop_log, cleanup_lock,
                   receive_task, call, calls_made, stdout_pipe, listing>>

\* self.process.stdin.close(); self.process.terminate(): a cooperative child
\* exits; for a child that is gone terminate() raises, which is caught
StopTerminate(t) ==
    /\ pc = "wire"
    /\ stop_pc[t] = "terminate"
    /\ stop_log' = IF child.exited THEN Append(stop_log, "close_stdin")
                   ELSE stop_log \o <<"close_stdin", "terminate">>
    /\ child' = [child EXCEPT !.exited = @ \/ (child.kind = "cooperative")]
    /\ stop_pc' = At(t, "wait")
    /\ UNCHANGED <<unwired_vars, w_client, responses, replied, cleanup_lock,
                   receive_task, call, calls_made, stdout_pipe, listing>>

\* wait_for(self.process.wait(), 1.0), kill() on its timeout, and the finally
\* clause; the lock is released
StopWait(t) ==
    /\ pc = "wire"
    /\ stop_pc[t] = "wait"
    /\ IF child.exited
       THEN UNCHANGED <<stop_log, child>>
       ELSE /\ stop_log' = Append(stop_log, "kill")
            /\ child' = [child EXCEPT !.exited = TRUE]
    /\ w_client' = [w_client EXCEPT !.process = FALSE]
    /\ cleanup_lock' = 0
    /\ stop_pc' = At(t, "returned")
    /\ UNCHANGED <<unwired_vars, responses, replied, receive_task, call, calls_made,
                   stdout_pipe, listing>>

\* how start() of a client that was stopped can end: _shutdown is still set, so
\* the initialize request is never written and no reply to it can come
RestartOutcomes == {"spawn_failed", "init_timeout"}

\* MCPClient.start on a client that was stopped: a new child is spawned, a new
\* receive task is created, and the handshake is tried
Restart ==
    /\ pc = "wire"
    /\ w_client.transport = "stdio"
    /\ w_client.shutdown
    /\ ~w_client.process
    /\ child.spawn = 1
    /\ \E outcome \in RestartOutcomes :
          /\ w_client' = StdioStart(w_client, outcome)
          /\ IF outcome = "spawn_failed"
             THEN UNCHANGED <<child, receive_task, stdout_pipe>>
             ELSE /\ child' = [child EXCEPT !.exited = FALSE, !.spawn = 2]
                  /\ receive_task' = TRUE
                  /\ stdout_pipe' = <<>>
    /\ UNCHANGED <<unwired_vars, responses, replied, stop_log, cleanup_lock, stop_pc,
                   call, calls_made, listing>>

\* SSEMCPClient.stop up to its second await: the session context is exited
\* whenever self.session is set, which it stays
SseStopSession(t) ==
    /\ pc = "wire"
    /\ w_client.transport = "sse"
    /\ stop_pc[t] = "idle"
    /\ IF w_client.session
       THEN \E outcome \in StopOutcomes(w_client) :
               /\ stop_log' = Append(stop_log, "session_exit")
               /\ stop_pc' = At(t, IF outcome = "raised" THEN "raised" ELSE "streams")
       ELSE /\ stop_pc' = At(t, "streams")
            /\ UNCHANGED stop_log
    /\ UNCHANGED <<unwired_vars, w_client, responses, replied, child, cleanup_lock,
                   receive_task, call, calls_made, stdout_pipe, listing>>

\* await self._streams_context.__aexit__(None, None, None)
SseStopStreams(t) ==
    /\ pc = "wire"
    /\ stop_pc[t] = "streams"
    /\ stop_log' = Append(stop_log, "streams_exit")
    /\ stop_pc' = At(t, "returned")
    /\ UNCHANGED <<unwired_vars, w_client, responses, replied, child, cleanup_lock,
                   receive_task, call, calls_made, stdout_pipe, listing>>

NextWire ==
    \/ CallTool
    \/ ListTools
    \/ ServerReplies
    \/ ChildExits
    \/ Receive
    \/ ReceiveEof
    \/ CallReturns
    \/ CallSleeps
    \/ ListReturns
    \/ ListSleeps
    \/ SseCallReturns
    \/ SseCallWaits
    \/ \E t \in Stoppers : StopEnter(t)
    \/ \E t \in Stoppers : StopNotify(t)
    \/ \E t \in Stoppers : StopTerminate(t)
    \/ \E t \in Stoppers : StopWait(t)
    \/ Restart
    \/ \E t \in Stoppers : SseStopSession(t)
    \/ \E t \in Stoppers : SseStopStreams(t)

\* call_tool, list_tools and stop() calls on one started client
SpecWire == InitWire /\ [][NextWire]_vars

\* a started stdio client that is never stopped
InitMux == InitWire /\ w_client.transport = "stdio"

NextMux ==
    \/ CallTool
    \/ ListTools
    \/ ServerReplies
    \/ ChildExits
    \/ Receive
    \/ ReceiveEof
    \/ CallReturns
    \/ CallSleeps
    \/ ListReturns
    \/ ListSleeps

\* the operations of one stdio client and its receive loop, without stop()
SpecMux == InitMux /\ [][NextMux]_vars

\* ---- providers/openai.py: one generation of the OpenAI adapter ----

MaxFragments == 3

\* how the provider call can fail: openai.APIError, its subclass
\* openai.RateLimitError, and any other exception
FailureKinds == {"APIError", "RateLimitError", "Exception"}

SamplingKeys == {"temperature", "top_p", "max_tokens"}

\* the keyword arguments generate_with_openai_stream gives to create()
StreamKwargs(cfg) ==
    [key \in {"model", "temperature", "top_p", "max_tokens", "tool_choice", "stream"} |->
        CASE key = "model" -> cfg.model
          [] key = "tool_choice" -> "auto"
          [] key = "stream" -> "True"
          [] OTHER -> cfg[key]]

\* the keyword arguments generate_with_openai_sync gives to create()
SyncKwargs(cfg, is_reasoning, reasoning_effort) ==
    IF is_reasoning
    THEN [key \in {"model", "response_format", "reasoning_effort", "tool_choice", "stream"} |->
            CASE key = "model" -> cfg.model
              [] key = "response_format" -> "text"
              [] key = "reasoning_effort" -> reasoning_effort
              [] key = "tool_choice" -> "auto"
              [] OTHER -> "False"]
    ELSE [key \in {"model", "temperature", "top_p", "max_tokens", "tool_choice", "stream"} |->
            CASE key = "model" -> cfg.model
              [] key = "tool_choice" -> "auto"
              [] key = "stream" -> "False"
              [] OTHER -> cfg[key]]

\* generate_with_openai: is_reasoning is model_cfg's flag and reaches the
\* non-streaming function only
GenerateKwargs(cfg, streaming) ==
    IF streaming THEN StreamKwargs(cfg)
    ELSE SyncKwargs(cfg, cfg.is_reasoning, cfg.reasoning_effort)

\* a reply of the adapter
Generated(kind, assistant_text, calls) ==
    [kind |-> kind, assistant_text |-> assistant_text, tool_calls |-> calls]

\* f"{prefix}{e}"
ErrorMessage(prefix) == <<prefix, "e">>

\* the exception leaves the adapter
Unhandled(failure) == Generated("raised", <<failure>>, <<>>)

\* the except clauses of generate_with_openai_sync: the first that matches
SyncExcept(failure) ==
    IF failure \in {"APIError", "RateLimitError"}
    THEN Generated("returned", ErrorMessage("OpenAI API error: "), <<>>)
    ELSE IF failure = "RateLimitError"
    THEN Generated("returned", ErrorMessage("OpenAI rate limit: "), <<>>)
    ELSE Generated("returned", ErrorMessage("Unexpected OpenAI error: "), <<>>)

\* `except Exception` of generate_with_openai_stream: a final chunk
StreamExcept(failure) == Generated("final_chunk", ErrorMessage("OpenAI error: "), <<>>)

\* a tool call of a reply or of the accumulator
FunctionCall(id, name, arguments) == [id |-> id, name |-> name, arguments |-> arguments]

\* the tool calls a non-streamed reply may carry
SyncReplyCalls == {<<>>, <<FunctionCall("call", <<"s", "_", "e">>, <<"{", "}">>)>>}

StartsWith(text, char) == text # <<>> /\ Head(text) = char
EndsWith(text, char) == text # <<>> /\ text[Len(text)] = char

\* a tool call entry of a delta
Fragment(index, id, name, arguments) ==
    [index |-> index, id |-> id, name |-> name, arguments |-> arguments]

\* the arguments fragments that follow the first: the start of an object, a part
\* that holds a whole nested object, the end of an object
ArgumentFragments == {<<"{">>, <<"{", "{", "}">>, <<"}">>}

\* the tool call entries of the deltas: the first of a call carries id and name
\* and the start of the arguments or none, the later ones more of the name or
\* more of the arguments
ToolCallFragments ==
    UNION {{Fragment(i, "call", <<"e">>, <<>>), Fragment(i, "call", <<"e">>, <<"{">>),
            Fragment(i, "", <<"e">>, <<>>)}
              \cup {Fragment(i, "", <<>>, a) : a \in ArgumentFragments} : i \in 0..1}

\* "Properly accumulate JSON arguments"
AccumulateArguments(current_args, new_args) ==
    IF new_args = <<>> THEN current_args
    ELSE IF StartsWith(new_args, "{") /\ current_args = <<>> THEN new_args
    ELSE IF EndsWith(new_args, "}") /\ current_args # <<>>
    THEN IF ~EndsWith(current_args, "}") THEN current_args \o new_args ELSE current_args
    ELSE current_args \o new_args

\* current_tool_calls grown up to the fragment's index
GrownTo(calls, index) ==
    IF index < Len(calls) THEN calls
    ELSE calls \o [i \in 1..(index + 1 - Len(calls)) |-> FunctionCall("", <<>>, <<>>)]

\* one tool call entry of a delta applied to current_tool_calls
Accumulate(calls, fragment) ==
    LET grown == GrownTo(calls, fragment.index)
        current_tool == grown[fragment.index + 1]
    IN  [grown EXCEPT ![fragment.index + 1] =
            FunctionCall(IF fragment.id # "" THEN fragment.id ELSE current_tool.id,
                         IF fragment.name # <<>> THEN current_tool.name \o fragment.name
                         ELSE current_tool.name,
                         AccumulateArguments(current_tool.arguments, fragment.arguments))]

\* json.loads on a text of braces: the empty object is the one that parses
ParsesAsJson(args) == args = <<"{", "}">>

\* the arguments of a tool call at the finish: parsed and dumped again, repaired
\* with a leading and a trailing brace when they do not parse, else "{}"
FinalArguments(arguments) ==
    LET args == IF arguments = <<>> THEN <<"{", "}">> ELSE arguments
        opened == IF StartsWith(args, "{") THEN args ELSE <<"{">> \o args
        fixed == IF EndsWith(opened, "}") THEN opened ELSE opened \o <<"}">>
    IN  IF ParsesAsJson(args) THEN args
        ELSE IF ParsesAsJson(fixed) THEN fixed
        ELSE <<"{", "}">>

\* whether the finish keeps this tool call
IsComplete(tc) == tc.id # "" /\ tc.name # <<>>

\* tc["function"]["arguments"] of the kept tool calls is rewritten in place
Finalised(calls) ==
    [i \in 1..Len(calls) |->
        IF IsComplete(calls[i])
        THEN [calls[i] EXCEPT !.arguments = FinalArguments(@)]
        ELSE calls[i]]

\* what the loop makes of the reply
LoopOut(text, dispatched) ==
    [seen |-> TRUE, final_text |-> text, dispatched |-> dispatched, ended |-> dispatched = 0]

\* the non-streaming loop of _prompt_original: `finally: return final_text`
SyncLoop(gen) ==
    IF gen.kind = "raised" THEN LoopOut(<<>>, 0)
    ELSE LoopOut(gen.assistant_text, Len(gen.tool_calls))

\* stream_response of _prompt_original on the final chunk, no token received
StreamLoop(gen) ==
    IF gen.kind = "raised" THEN LoopOut(<<>>, 0)
    ELSE LoopOut(Remaining(gen.assistant_text, <<>>), Len(gen.tool_calls))

\* the adapter specification: one generation for each configuration and mode
InitAdapter ==
    /\ entry = "agent"
    /\ stream \in BOOLEAN
    /\ use_reasoning = FALSE
    /\ system_cfg = NoSystemKeys
    /\ AgentInit({<<>>}, 0, "adapter")
    /\ SplitIdle
    /\ SelectIdle
    /\ ChunkIdle
    /\ SpillIdle
    /\ ReasonIdle
    /\ WireIdle
    /\ \E cfg \in ModelConfigs : AdapterBegin(cfg)

unadapted_vars == <<main_vars, split_vars, select_vars, chunk_vars, spill_vars,
                    reason_vars, wire_vars>>

\* generate_with_openai: the request is made; the provider accepts it or fails
Create ==
    /\ pc = "adapter"
    /\ create_kwargs' = GenerateKwargs(model_cfg, stream)
    /\ \E outcome \in {"ok"} \cup FailureKinds :
          /\ provider_outcome' = outcome
          /\ IF stream
             THEN IF outcome = "ok"
                  THEN pc' = "stream" /\ gen_result' = gen_result
                  ELSE pc' = "reply" /\ gen_result' = StreamExcept(outcome)
             ELSE /\ pc' = "reply"
                  /\ IF outcome = "ok"
                     THEN \E calls \in SyncReplyCalls :
                             gen_result' = Generated("returned", <<"ok">>, calls)
                     ELSE gen_result' = SyncExcept(outcome)
    /\ UNCHANGED <<unadapted_vars, model_cfg, fragments, current_tool_calls, loop_out>>

\* a chunk with one tool call entry arrives
Delta ==
    /\ pc = "stream"
    /\ Len(fragments) < MaxFragments
    /\ \E fragment \in ToolCallFragments :
          /\ fragments' = Append(fragments, fragment)
          /\ current_tool_calls' = Accumulate(current_tool_calls, fragment)
    /\ UNCHANGED <<unadapted_vars, pc, model_cfg, create_kwargs, gen_result, loop_out,
                   provider_outcome>>

\* the generator has yielded its final chunk: its chunks and its locals are gone
StreamEnds ==
    /\ fragments' = <<>>
    /\ current_tool_calls' = <<>>
    /\ pc' = "reply"

\* the chunk with the finish reason arrives
Finish ==
    /\ pc = "stream"
    /\ gen_result' = Generated("final_chunk", <<>>,
                               SelectSeq(Finalised(current_tool_calls), IsComplete))
    /\ StreamEnds
    /\ UNCHANGED <<unadapted_vars, model_cfg, create_kwargs, loop_out, provider_outcome>>

\* the provider stream raises while it is read
StreamRaises ==
    /\ pc = "stream"
    /\ \E failure \in FailureKinds :
          /\ provider_outcome' = failure
          /\ gen_result' = StreamExcept(failure)
    /\ StreamEnds
    /\ UNCHANGED <<unadapted_vars, model_cfg, create_kwargs, loop_out>>

\* the loop of _prompt_original takes the reply
LoopReply ==
    /\ pc = "reply"
    /\ loop_out' = IF stream THEN StreamLoop(gen_result) ELSE SyncLoop(gen_result)
    /\ pc' = "adapter_done"
    /\ UNCHANGED <<unadapted_vars, model_cfg, create_kwargs, fragments,
                   current_tool_calls, gen_result, provider_outcome>>

NextAdapter == Create \/ Delta \/ Finish \/ StreamRaises \/ LoopReply

\* one generation of the OpenAI adapter and the loop's step on its reply
SpecAdapter == InitAdapter /\ [][NextAdapter]_vars

(***************************************************************************)
(* The spill of long fields.                                               *)
(***************************************************************************)

RECURSIVE AllStrings(_)
\* the strings anywhere in a value: in its dictionaries and lists, and in the
\* value a JSON text encodes
AllStrings(value) ==
    IF value.t = "text" THEN {value} \cup AllStrings(value.value)
    ELSE IF IsStr(value) THEN {value}
    ELSE IF IsDict(value)
         THEN UNION {AllStrings(value.fields[k]) : k \in DOMAIN value.fields}
    ELSE IF IsList(value)
         THEN UNION {AllStrings(value.items[i]) : i \in 1..Len(value.items)}
    ELSE {}

\* the first call of process_long_fields has ended
Spilled == pc \in {"spilled", "respilled"}

\* C16: for a value that is not a dict or a list, and for a value in which no
\* string is longer than max_length, process_long_fields returns the input
\* unchanged and creates no file
C16_NoOpBelowThreshold ==
    (/\ Spilled
     /\ \/ ~(IsDict(tool_result) \/ IsList(tool_result))
        \/ \A s \in AllStrings(tool_result) : StrLen(s) <= max_length)
        => /\ spill_out.status = "returned"
           /\ spill_out.value = tool_result
           /\ spill_out.written = <<>>

\* C17: applying process_long_fields to what process_long_fields returned
\* returns it unchanged and creates no second file (stated for the calls whose
\* temp files could be written)
C17_Idempotent ==
    (/\ pc = "respilled"
     /\ spill_out.io # "failed"
     /\ respill_out.io # "failed")
        => /\ respill_out.status = "returned"
           /\ respill_out.value = spill_out.value
           /\ respill_out.written = <<>>

\* C18: when the tool result holds a string longer than max_length anywhere
\* in its tree, the returned value holds none of them any more (stated for
\* the calls that returned and whose temp file could be written)
C18_EveryLongStringReplaced ==
    (/\ Spilled
     /\ IsDict(tool_result) \/ IsList(tool_result)
     /\ spill_out.status = "returned"
     /\ spill_out.io # "failed")
        => \A s \in AllStrings(spill_out.value) : s.t = "str" => s.len <= max_length

\* the value whose strings a call measures: the JSON that the first text of an
\* MCP content envelope holds, the value itself otherwise
ValueExamined(value) ==
    IF IsEnvelope(value) /\ EnvelopeText(value).t = "text"
    THEN EnvelopeText(value).value
    ELSE value

\* the first call returned after it found an overlength string in the value
\* it examined; it examines dicts and lists only
FoundLongField ==
    /\ spill_out.status = "returned"
    /\ IsDict(tool_result) \/ IsList(tool_result)
    /\ check_for_long_fields(ValueExamined(tool_result), max_length)

\* the references to temp files anywhere in a value
References(value) == {s \in AllStrings(value) : s.t = "ref"}

\* every reference in the value the first call returned names the first file
ReferencesNameTheFile ==
    /\ References(spill_out.value) # {}
    /\ \A s \in References(spill_out.value) : s.file = 1

EnvelopeWithLongField ==
    /\ IsEnvelope(tool_result)
    /\ EnvelopeText(tool_result).t = "text"
    /\ check_for_long_fields(EnvelopeText(tool_result).value, max_length)

\* an envelope without its first text
WithoutText(envelope) ==
    [envelope EXCEPT !.fields.content.items[1].fields.text = JsonNumber]

RECURSIVE ReplacedIn(_, _)
\* b is a with exactly the strings longer than max_length replaced by their
\* preview and a reference to the first file
ReplacedIn(a, b) ==
    IF IsStr(a) THEN b = (IF StrLen(a) > max_length THEN Replacement(a, 1) ELSE a)
    ELSE IF IsDict(a)
         THEN /\ IsDict(b)
              /\ DOMAIN b.fields = DOMAIN a.fields
              /\ \A k \in DOMAIN a.fields : ReplacedIn(a.fields[k], b.fields[k])
    ELSE IF IsList(a)
         THEN /\ IsList(b)
              /\ Len(b.items) = Len(a.items)
              /\ \A i \in 1..Len(a.items) : ReplacedIn(a.items[i], b.items[i])
    ELSE b = a

\* the first call returned the envelope with the JSON of its text spilled,
\* and the file holds that JSON
EnvelopeSpilled ==
    /\ spill_out.status = "returned"
    /\ IsEnvelope(spill_out.value)
    /\ WithoutText(spill_out.value) = WithoutText(tool_result)
    /\ EnvelopeText(spill_out.value).t = "text"
    /\ ReplacedIn(EnvelopeText(tool_result).value, EnvelopeText(spill_out.value).value)
    /\ spill_out.written = <<EnvelopeText(tool_result).value>>

\* C20 as stated: for an envelope whose text holds JSON with an overlength
\* string the returned value is an envelope of the same shape whose text
\* parses to that JSON with exactly the overlength strings replaced, and the
\* temp file holds the JSON
C20_EnvelopeAlwaysSpilled ==
    (Spilled /\ EnvelopeWithLongField) => EnvelopeSpilled

\* C20: for an envelope whose text holds JSON with an overlength string, when
\* the temp file can be written the returned value is an envelope of the
\* same shape whose text parses to that JSON with exactly the overlength
\* strings replaced, and the temp file holds the JSON; when it cannot be
\* written the envelope is returned unchanged
C20_EnvelopeSpilledIfWritten ==
    (Spilled /\ EnvelopeWithLongField) =>
        IF spill_out.io = "failed"
        THEN spill_out = Outcome("returned", tool_result, "failed", <<>>)
        ELSE EnvelopeSpilled

\* an envelope was returned with another text
C20_Witness ==
    /\ Spilled
    /\ EnvelopeWithLongField
    /\ spill_out.io = "written"
    /\ EnvelopeText(spill_out.value) # EnvelopeText(tool_result)

(***************************************************************************)
(* Shutdown of the pool.                                                   *)
(***************************************************************************)

\* the servers whose start() returned True
StartedServers == {name \in DOMAIN ok : ok[name] = "True"}

\* C24: when an interaction of run_interaction has ended, whatever the
\* outcome of the prompt, stop() has been called on the client of every
\* server that was started (cleanup went through the whole pool)
C24_StartedServersStopped ==
    (entry = "run_interaction" /\ pc = "done" /\ StartedServers # {}) => cleaned

\* C25: cleanup() does not end with the failure of a client's stop(): it goes
\* on to the remaining clients
C25_StopFailureContained == result # Raised("cleanup")

(***************************************************************************)
(* The reasoning loop.                                                     *)
(***************************************************************************)

\* the last step was an iteration of the loop on r_reply
IterationRan == r_obs.ending \in {"final", "continue", "error", "escaped"}

MaxIterationsMessage ==
    ReasonResult("returned", FALSE, "Process stopped after reaching maximum iterations (N).")

\* C26: execute_reasoning_loop runs at most max_iterations iterations and ends
\* by returning (True, answer) or (False, message), never by an exception;
\* without a final answer it returns the maximum-iterations message, and with
\* max_iterations = 0 it returns it without calling the model
C26_LoopReturns ==
    /\ r_i <= r_cfg.max_iterations
    /\ r_result.kind # "raised"
    /\ (pc = "reason_returned" /\ r_obs.ending = "max") => r_result = MaxIterationsMessage
    /\ (pc = "reason_returned" /\ r_cfg.max_iterations = 0)
           => (r_model_calls = 0 /\ r_result = MaxIterationsMessage)

\* C27: an iteration whose assistant message holds a final-answer block
\* returns (True, answer) without running a code block of the message and
\* without dispatching a tool call of it
C27_FinalAnswerFirst ==
    (IterationRan /\ ~r_reply.raises /\ r_reply.final)
        => /\ r_result = ReasonResult("returned", TRUE, "answer")
           /\ r_obs.ran = <<>>
           /\ r_obs.dispatched = <<>>

\* C28: a code block that reads a name prints its value exactly when an
\* earlier code block of the same call bound it (in an earlier iteration or
\* earlier in the same message); what earlier calls bound is not visible
C28_ContextPerSession ==
    [][\A k \in 1..Len(r_obs'.ran) :
           (r_i' = r_i + 1 /\ r_reply'.code[k] = "use")
               => ((r_obs'.ran[k] = "1")
                      <=> ("x" \in session_bound
                              \/ \E j \in 1..(k - 1) : r_reply'.code[j] = "bind"))]_vars

\* a name bound in the first call is not found by a code block of the second
C28_Witness ==
    /\ r_session = 2
    /\ "x" \in ever_bound
    /\ r_obs.ran = <<"Traceback: NameError">>

\* C29: no exception of a code block leaves the interpreter or ends the call,
\* and sys.stdout is what it was before
C29_CodeErrorsTrapped ==
    /\ r_obs.ending # "escaped"
    /\ sys_stdout = "original"

\* the number of trace calls with this text
TraceCount(trace, text) == Cardinality({i \in DOMAIN trace : trace[i] = text})

\* C30: in an iteration whose model result has a non-empty reasoning text the
\* trace callback gets it once, marked "[REASONING]", and gets the assistant
\* text; for an empty or missing reasoning text there is no such trace call
C30_ReasoningTraced ==
    (IterationRan /\ ~r_reply.raises)
        => /\ TraceCount(r_obs.trace, "[ASSISTANT]") = 1
           /\ TraceCount(r_obs.trace, "[REASONING]")
                  = (IF r_reply.reasoning = "thinking" THEN 1 ELSE 0)

(***************************************************************************)
(* call_tool and stop() of a server client.                                *)
(***************************************************************************)
\* the reply to this request id, as the outcome of a call carries it; the text
\* of the caught exception is taken for the error too
CarriesReply(outcome, rid) ==
    outcome.kind \in {"result", "error", "error_text"} /\ outcome.id = rid

\* stop() was not called on the client
NeverStopped == \A t \in Stoppers : stop_pc[t] = "idle"

\* C21: call_tool on a started client never raises and ends in one of three
\* ways: with the result of the reply to its own request, with the error of
\* that reply, or with the timeout error once no reply has arrived within the
\* tool timeout; after an error or a timeout the client is still usable.
C21_CallToolOutcomes ==
    /\ call.state = "waiting" => call.elapsed < ToolTimeout
    /\ (call.state = "returned" /\ call.outcome # CallRefused)
           => (CarriesReply(call.outcome, call.rid) \/ call.outcome = CallTimeout)
    /\ (call.state = "returned" /\ NeverStopped)
           => (w_client.process \/ w_client.session) /\ ~w_client.shutdown

Occurrences(log, event) == Cardinality({k \in 1..Len(log) : log[k] = event})

\* C22: stop() is idempotent and serialized on stdio and SSE clients alike: for
\* any number of sequential or concurrent calls on one client the shutdown
\* sequence (close, terminate or kill, session exit) is executed at most once.
C22_StopOnce ==
    \A event \in {"close_stdin", "terminate", "kill", "session_exit", "streams_exit"} :
       Occurrences(stop_log, event) <= 1

ShutdownNote == Request(0, "shutdown", <<>>, JsonNull)

\* C23: stop() of a running stdio client writes a shutdown notification to the
\* child's stdin, then closes stdin, then requests termination, and kills only a
\* child that did not exit after terminate.
C23_GracefulOrder ==
    w_client.transport = "stdio" =>
    /\ stop_log # <<>> =>
          /\ \E i \in 1..Len(w_client.stdin) : w_client.stdin[i] = ShutdownNote
          /\ stop_log[1] = "close_stdin"
    /\ \A k \in 1..Len(stop_log) :
          /\ stop_log[k] = "terminate" => (k > 1 /\ stop_log[k - 1] = "close_stdin")
          /\ stop_log[k] = "kill" =>
                (k > 1 /\ stop_log[k - 1] = "terminate" /\ child.kind = "ignores_terminate")


(***************************************************************************)
(* Child processes of the pool.                                            *)
(***************************************************************************)
\* the entries whose client holds a spawned child process
RunningChildren == {name \in AllServerNames : clients[name].process}

\* C39: no child process outlives the interaction: every child the pool spawned
\* through start(), also one whose handshake failed so that its server was
\* skipped, has been terminated by the time cleanup() returns.
C39_NoChildOutlives == cleaned => RunningChildren = {}


(***************************************************************************)
(* Catalogue names through the router.                                     *)
(***************************************************************************)
\* process_tool_call hands the call to the server of the pair with the tool
\* name of the pair
RoutedBack ==
    route_out = RouteCall(split_in[1], split_in[2], ParseArguments(ArgsEmpty))

\* C40 as stated: for every server of the pool, whatever its configured name,
\* and every tool it listed, a call carrying the catalogue name is dispatched
\* to that server with the tool name the server listed.
C40_CatalogueNamesRoundTrip == split_out # <<>> => RoutedBack

\* C40: for every server whose name holds no underscore and every tool it
\* listed, whatever the tool's name, a call carrying the catalogue name is
\* dispatched to that server with the tool name the server listed.
C40_RoundTripWithoutUnderscore ==
    (split_out # <<>> /\ ~HasUnderscore(split_in[1])) => RoutedBack

\* the catalogue name of a tool whose name holds an underscore was routed back
C40_Witness ==
    /\ split_in = <<<<"a">>, <<"b", Underscore>>>>
    /\ RoutedBack


(***************************************************************************)
(* Requests and replies of one stdio client.                               *)
(***************************************************************************)
\* the operation ended with the reply to request rid, or without a reply
OwnReply(op) ==
    (op.state = "returned" /\ op.outcome.kind \in {"result", "error"})
        => op.outcome.id = op.rid

\* the requests written to the child carry strictly increasing ids
IdsIncrease ==
    \A i, j \in 1..Len(w_client.stdin) :
       (i < j /\ w_client.stdin[i].id # 0 /\ w_client.stdin[j].id # 0)
           => w_client.stdin[i].id < w_client.stdin[j].id

\* C34: with several requests outstanding on one stdio client every operation
\* returns the reply whose id is the id of the request it sent, whatever order
\* the replies arrive in; request ids are strictly increasing and never
\* reused, so no operation gets another request's reply or a late reply to an
\* earlier request.
C34_RepliesMatchedById ==
    w_client.transport = "stdio" =>
        /\ OwnReply(call)
        /\ OwnReply(listing)
        /\ IdsIncrease
        /\ (call.rid # 0 /\ listing.rid # 0) => call.rid # listing.rid

\* the later request was answered and its operation returned while the
\* operation of the earlier request still waits
C34_Witness ==
    /\ call.state = "waiting"
    /\ listing.state = "returned"
    /\ listing.outcome = CallResult(listing.rid)
    /\ call.rid < listing.rid

\* an operation waits for the reply to request rid
Waiting(rid) ==
    \/ call.state = "waiting" /\ call.rid = rid
    \/ listing.state = "waiting" /\ listing.rid = rid

\* C35: reply entries are strictly cleaned: every entry of the response map
\* belongs to a request whose operation is still waiting, so once an operation
\* has returned the map holds no entry for its request id.
C35_ResponsesCleaned == \A resp \in responses : Waiting(resp.id)

\* C36: when the child's stdout is dropped while operations wait, the client is
\* marked shutting-down and every waiting operation is failed instead of
\* waiting for its timeout.
C36_DroppedPipeFailsWaiters ==
    (w_client.transport = "stdio" /\ NeverStopped /\ child.exited /\ ~receive_task)
        => /\ w_client.shutdown
           /\ call.state # "waiting"
           /\ listing.state # "waiting"

\* C37: the receive task reads every line the child writes to stdout, and
\* every response it reads reaches the response map: while the client is not
\* stopped a line in the pipe has the receive task to read it, and a line taken
\* from the pipe is stored.
C37_EveryResponseStored ==
    /\ [](( w_client.transport = "stdio" /\ NeverStopped /\ stdout_pipe # <<>>)
              => receive_task)
    /\ [][(receive_task /\ stdout_pipe # <<>> /\ stdout_pipe' = Tail(stdout_pipe))
              => Head(stdout_pipe) \in responses']_vars

\* a stop() call on the client has completed
StopCompleted == \E t \in Stoppers : stop_pc[t] = "returned"

\* C38: the stopped state of a client is absorbing: once stop() has completed
\* no later operation makes it ready again, and a later start() leaves no
\* running child process behind.
C38_StoppedIsAbsorbing ==
    (w_client.transport = "stdio" /\ StopCompleted)
        => (~w_client.process /\ child.exited)


\* ---- C31: a failed provider call ends the loop with the error text ----

\* the error prefixes of the OpenAI adapter that name the provider and the error
ProviderErrorPrefixes == {"OpenAI error: ", "OpenAI API error: ", "Unexpected OpenAI error: "}

ProviderFailed == provider_outcome \in FailureKinds

ReasoningSku(cfg) == cfg.is_reasoning \/ cfg.model \in {"o1-mini", "o3-mini", "o4-mini"}

\* the request carries a value for this parameter
Carries(key) == key \in DOMAIN create_kwargs /\ create_kwargs[key] # None

\* C32: the request for a reasoning model carries none of max_tokens,
\* temperature and top_p, streaming or not, and carries the configured
\* reasoning_effort; the request for any other model carries the configured
\* sampling parameters
C32_ReasoningRequest ==
    provider_outcome # "none" =>
        IF ReasoningSku(model_cfg)
        THEN /\ \A key \in SamplingKeys : ~Carries(key)
             /\ model_cfg.reasoning_effort # None =>
                   /\ Carries("reasoning_effort")
                   /\ create_kwargs["reasoning_effort"] = model_cfg.reasoning_effort
        ELSE \A key \in SamplingKeys :
                model_cfg[key] # None =>
                    Carries(key) /\ create_kwargs[key] = model_cfg[key]

\* ---- C33: the accumulator concatenates the fragments ----

RECURSIVE JoinedNames(_, _)
\* the name fragments for this index, concatenated in arrival order
JoinedNames(received, index) ==
    IF received = <<>> THEN <<>>
    ELSE (IF Head(received).index = index THEN Head(received).name ELSE <<>>)
            \o JoinedNames(Tail(received), index)

RECURSIVE JoinedArguments(_, _)
\* the arguments fragments for this index, concatenated in arrival order
JoinedArguments(received, index) ==
    IF received = <<>> THEN <<>>
    ELSE (IF Head(received).index = index THEN Head(received).arguments ELSE <<>>)
            \o JoinedArguments(Tail(received), index)

\* C33: while the stream is read, for each tool call index the accumulator holds
\* the concatenation of all name fragments and of all arguments fragments
\* received for that index, in arrival order
C33_FragmentsConcatenated ==
    pc = "stream" =>
        /\ \A k \in 1..Len(fragments) : fragments[k].index < Len(current_tool_calls)
        /\ \A i \in 1..Len(current_tool_calls) :
              /\ current_tool_calls[i].name = JoinedNames(fragments, i - 1)
              /\ current_tool_calls[i].arguments = JoinedArguments(fragments, i - 1)

====
